---- MODULE Spec2Model ----
(***************************************************************************)
(* A model of the comment-block parsing engine of openscad_docsgen         *)
(* (src/openscad_docsgen/parser.py, class DocsGenParser).                  *)
(*                                                                         *)
(* Text is modelled character by character: a Python str is a sequence of  *)
(* one-character strings, a list of lines is a sequence of such sequences. *)
(* The header pattern, the body extraction and the option parsing are      *)
(* computed on these characters as the code computes them.                 *)
(***************************************************************************)
EXTENDS Integers, Sequences, FiniteSets, TLC

(***************************************************************************)
(* Python str primitives used by the parser.                               *)
(***************************************************************************)
Upper == {"A","B","C","D","E","F","G","H","I","J","K","L","M",
          "N","O","P","Q","R","S","T","U","V","W","X","Y","Z"}
Lower == {"a","b","c","d","e","f","g","h","i","j","k","l","m",
          "n","o","p","q","r","s","t","u","v","w","x","y","z"}
Digit == {"0","1","2","3","4","5","6","7","8","9"}
\* [A-Za-z0-9_&-]
WordChar == Upper \cup Lower \cup Digit \cup {"_", "&", "-"}
\* the characters str.strip() removes
Whitespace == {" ", "\t", "\n"}

\* s.startswith(p)
StartsWith(s, p) == Len(p) <= Len(s) /\ SubSeq(s, 1, Len(p)) = p
\* s[k:]
Drop(s, k) == SubSeq(s, k + 1, Len(s))
\* a variant of Spaces that is two spaces whatever n
Spaces_two(n) == <<" ", " ">>

\* " " * n
Spaces(n) == [i \in 1..n |-> " "]

\* a variant of lstrip that strips nothing
lstrip_none(s) == s

RECURSIVE lstrip(_)
lstrip(s) == IF s # <<>> /\ s[1] \in Whitespace THEN lstrip(Tail(s)) ELSE s

RECURSIVE rstrip(_)
rstrip(s) ==
  IF s # <<>> /\ s[Len(s)] \in Whitespace THEN rstrip(SubSeq(s, 1, Len(s) - 1)) ELSE s

strip(s) == lstrip(rstrip(s))

\* s.rstrip("/")
RECURSIVE rstripSlash(_)
rstripSlash(s) ==
  IF s # <<>> /\ s[Len(s)] = "/" THEN rstripSlash(SubSeq(s, 1, Len(s) - 1)) ELSE s

\* index of the first occurrence of character c in s at or after i, or 0
RECURSIVE Find(_, _, _)
Find(s, c, i) ==
  IF i > Len(s) THEN 0 ELSE IF s[i] = c THEN i ELSE Find(s, c, i + 1)

\* s.split(c) for a one-character separator c
RECURSIVE split(_, _)
split(s, c) ==
  LET k == Find(s, c, 1)
  IN  IF k = 0 THEN <<s>> ELSE <<SubSeq(s, 1, k - 1)>> \o split(Drop(s, k), c)

\* index of the first occurrence of "||" in s at or after i, or 0
RECURSIVE Find2Bars(_, _)
Find2Bars(s, i) ==
  IF i + 1 > Len(s) THEN 0
  ELSE IF s[i] = "|" /\ s[i + 1] = "|" THEN i ELSE Find2Bars(s, i + 1)

\* s.split("||")
RECURSIVE split2Bars(_)
split2Bars(s) ==
  LET k == Find2Bars(s, 1)
  IN  IF k = 0 THEN <<s>> ELSE <<SubSeq(s, 1, k - 1)>> \o split2Bars(Drop(s, k + 1))

\* [x.strip() for x in seq]
StripEach(seq) == [i \in 1..Len(seq) |-> strip(seq[i])]

\* sub in s, for a str sub
RECURSIVE Contains(_, _)
Contains(s, sub) ==
  IF Len(sub) > Len(s) THEN FALSE
  ELSE StartsWith(s, sub) \/ Contains(Tail(s), sub)

(***************************************************************************)
(* _header_pat, the regular expression of parser.py line 28. In order:     *)
(*   the three characters slash slash space, anchored at the line start;   *)
(*   group 1: a capital letter and any number of WordChar, optionally      *)
(*            followed by (group 2) an optional space, a capital letter    *)
(*            and any number of WordChar;                                  *)
(*   group 3, optional: an opening parenthesis, any number of characters   *)
(*            other than a closing parenthesis, a closing parenthesis;     *)
(*   a colon;                                                              *)
(*   group 4, optional: a space and any number of non-newline characters;  *)
(*   the end of the string, or a newline that ends the string.             *)
(* The pattern is deterministic: each starred class is followed by         *)
(* something outside the class, so the greedy match is the only one.       *)
(* The result holds groups 1, 3 and 4; an absent group is the empty        *)
(* sequence (a present group 3 has at least the two parentheses, a present *)
(* group 4 at least the space).                                            *)
(***************************************************************************)
\* first index at or after i whose character is not a WordChar
RECURSIVE WordEnd(_, _)
WordEnd(s, i) ==
  IF i <= Len(s) /\ s[i] \in WordChar THEN WordEnd(s, i + 1) ELSE i

NoMatch == [matched |-> FALSE, g1 |-> <<>>, g3 |-> <<>>, g4 |-> <<>>]

\* a variant of TailMatch that takes any rest of the line as the subtitle
TailMatch_any(rest) == [ok |-> TRUE, g4 |-> rest]

\* group 4 and the end anchor, applied to the rest of the line after the colon
TailMatch(rest) ==
  LET nl == Find(rest, "\n", 1)
      \* $ matches at the end, or just before a newline that ends the string
      body == IF nl = 0 THEN rest ELSE SubSeq(rest, 1, nl - 1)
      atEnd == nl = 0 \/ nl = Len(rest)
  IN  IF ~atEnd THEN [ok |-> FALSE, g4 |-> <<>>]
      ELSE IF body = <<>> THEN [ok |-> TRUE, g4 |-> <<>>]
      ELSE IF body[1] = " " THEN [ok |-> TRUE, g4 |-> body]
      ELSE [ok |-> FALSE, g4 |-> <<>>]

_header_pat(line) ==
  IF ~(StartsWith(line, <<"/", "/", " ">>) /\ Len(line) >= 4 /\ line[4] \in Upper)
  THEN NoMatch
  ELSE
    LET e1 == WordEnd(line, 5)
        \* group 2: a second word, after at most one space
        has2 == e1 + 1 <= Len(line) /\ line[e1] = " " /\ line[e1 + 1] \in Upper
        e2 == IF has2 THEN WordEnd(line, e1 + 2) ELSE e1
        \* group 3
        close == IF e2 <= Len(line) /\ line[e2] = "(" THEN Find(line, ")", e2 + 1) ELSE 0
        e3 == IF close > 0 THEN close + 1 ELSE e2
        tm == TailMatch(Drop(line, e3))
    IN  IF e3 <= Len(line) /\ line[e3] = ":" /\ tm.ok
        THEN [matched |-> TRUE,
              g1 |-> SubSeq(line, 4, e2 - 1),
              g3 |-> IF close > 0 THEN SubSeq(line, e2, close) ELSE <<>>,
              g4 |-> tm.g4]
        ELSE NoMatch

(***************************************************************************)
(* String literals of parser.py, as character sequences.                   *)
(***************************************************************************)
s_DefineHeader == <<"D","e","f","i","n","e","H","e","a","d","e","r">>
s_IgnoreFiles == <<"I","g","n","o","r","e","F","i","l","e","s">>
s_PrioritizeFiles == <<"P","r","i","o","r","i","t","i","z","e","F","i","l","e","s">>
s_DocsDirectory == <<"D","o","c","s","D","i","r","e","c","t","o","r","y">>
s_ProjectName == <<"P","r","o","j","e","c","t","N","a","m","e">>
s_TargetProfile == <<"T","a","r","g","e","t","P","r","o","f","i","l","e">>
s_GenerateDocs == <<"G","e","n","e","r","a","t","e","D","o","c","s">>
s_vim == <<"v","i","m">>
s_emacs == <<"e","m","a","c","s">>
s_File == <<"F","i","l","e">>
s_LibFile == <<"L","i","b","F","i","l","e">>
s_Section == <<"S","e","c","t","i","o","n">>
s_Subsection == <<"S","u","b","s","e","c","t","i","o","n">>
s_Includes == <<"I","n","c","l","u","d","e","s">>
s_FileSummary == <<"F","i","l","e","S","u","m","m","a","r","y">>
s_FileGroup == <<"F","i","l","e","G","r","o","u","p">>
s_FileFootnotes == <<"F","i","l","e","F","o","o","t","n","o","t","e","s">>
s_CommonCode == <<"C","o","m","m","o","n","C","o","d","e">>
s_Figure == <<"F","i","g","u","r","e">>
s_Example == <<"E","x","a","m","p","l","e">>
s_Figures == <<"F","i","g","u","r","e","s">>
s_Examples == <<"E","x","a","m","p","l","e","s">>
s_Constant == <<"C","o","n","s","t","a","n","t">>
s_Function == <<"F","u","n","c","t","i","o","n">>
s_Module == <<"M","o","d","u","l","e">>
s_Topics == <<"T","o","p","i","c","s">>
s_Status == <<"S","t","a","t","u","s">>
s_Alias == <<"A","l","i","a","s">>
s_Aliases == <<"A","l","i","a","s","e","s">>
s_Arguments == <<"A","r","g","u","m","e","n","t","s">>
s_ItemOnly == <<"I","t","e","m","O","n","l","y">>
s_NumList == <<"N","u","m","L","i","s","t">>
s_BulletList == <<"B","u","l","l","e","t","L","i","s","t">>
s_Table == <<"T","a","b","l","e">>
s_Headers == <<"H","e","a","d","e","r","s">>
s_Label == <<"L","a","b","e","l">>
s_Text == <<"T","e","x","t">>
s_Generic == <<"G","e","n","e","r","i","c">>
s_DEPRECATED == <<"D","E","P","R","E","C","A","T","E","D">>
s_FILES == <<"F","I","L","E","S">>
s_TOC == <<"T","O","C">>
s_INDEX == <<"I","N","D","E","X">>
s_TOPICS == <<"T","O","P","I","C","S">>
s_CHEAT == <<"C","H","E","A","T">>
s_CHEATSHEET == <<"C","H","E","A","T","S","H","E","E","T">>
s_SIDEBAR == <<"S","I","D","E","B","A","R">>
s_Defaults == <<"D","e","f","a","u","l","t","s">>
s_Description == <<"D","e","s","c","r","i","p","t","i","o","n">>
s_Usage == <<"U","s","a","g","e">>
s_FunctionModule == <<"F","u","n","c","t","i","o","n","&","M","o","d","u","l","e">>
s_SeeAlso == <<"S","e","e"," ","A","l","s","o">>
RCFILE == <<".","o","p","e","n","s","c","a","d","_","d","o","c","s","g","e","n","_","r","c">>

\* the header sets of the built-in Arguments table (parser.py lines 118-122)
ArgumentsHeaders ==
  << << <<"^","<","a","b","b","r"," ","t","i","t","l","e","=","\"","T","h","e","s","e"," ","a","r","g","s"," ","c","a","n"," ","b","e"," ","u","s","e","d"," ","b","y"," ","p","o","s","i","t","i","o","n"," ","o","r"," ","b","y"," ","n","a","m","e",".","\"",">","B","y","&","n","b","s","p",";","P","o","s","i","t","i","o","n","<","/","a","b","b","r",">">>,
        <<"W","h","a","t"," ","i","t"," ","d","o","e","s">> >>,
     << <<"^","<","a","b","b","r"," ","t","i","t","l","e","=","\"","T","h","e","s","e"," ","a","r","g","s"," ","m","u","s","t"," ","b","e"," ","u","s","e","d"," ","b","y"," ","n","a","m","e",","," ","i","e",":"," ","n","a","m","e","=","v","a","l","u","e","\"",">","B","y","&","n","b","s","p",";","N","a","m","e","<","/","a","b","b","r",">">>,
        <<"W","h","a","t"," ","i","t"," ","d","o","e","s">> >> >>

\* the lines _reset_header_defs parses under the source name "Defaults"
DefaultLines ==
  << <<"/","/"," ","D","e","f","i","n","e","H","e","a","d","e","r","(","T","e","x","t",")",":"," ","T","e","x","t">>,
     <<"/","/"," ","D","e","f","i","n","e","H","e","a","d","e","r","(","T","e","x","t",";","I","t","e","m","O","n","l","y",")",":"," ","D","e","s","c","r","i","p","t","i","o","n">>,
     <<"/","/"," ","D","e","f","i","n","e","H","e","a","d","e","r","(","B","u","l","l","e","t","L","i","s","t",";","I","t","e","m","O","n","l","y",")",":"," ","U","s","a","g","e">> >>

(***************************************************************************)
(* Objects.  A block object is a record of the heap p.nodes and is named   *)
(* by its index there; None is 0.  p is the DocsGenParser object together  *)
(* with the heap of blocks and the module-level errorlog.                  *)
(***************************************************************************)
None == 0

\* a variant of OriginInfo that keeps the 0-based index of the header line
OriginInfo_zero_based(file, line) == [file |-> file, line |-> line - 1]

OriginInfo(file, line) == [file |-> file, line |-> line]

\* a block as its constructor leaves it (blocks.py: title, subtitle, body,
\* origin, parent, children, and the attributes of File, Item and Table blocks)
NewBlock(cls, title, subtitle, body, origin, parent, meta, header_sets) ==
  [cls |-> cls, title |-> title, subtitle |-> subtitle, body |-> body,
   origin |-> origin, parent |-> parent, children |-> <<>>, meta |-> meta,
   header_sets |-> header_sets, aliases |-> <<>>, deprecated |-> FALSE,
   summary |-> <<>>, group |-> <<>>, footnotes |-> <<>>, common_code |-> <<>>]

\* cls(title, subtitle, body, origin, parent=parent, ...): the new block is
\* appended to its parent's children when the parent is not None
Construct(p, cls, title, subtitle, body, origin, parent, meta, header_sets) ==
  LET id == Len(p.nodes) + 1
      linked == IF parent = None THEN p.nodes
                ELSE [p.nodes EXCEPT ![parent].children = Append(@, id)]
  IN  [p EXCEPT !.nodes =
         Append(linked, NewBlock(cls, title, subtitle, body, origin, parent, meta, header_sets))]

\* isinstance(node, ItemBlock)
IsItem(p, node) == node # None /\ p.nodes[node].cls = "ItemBlock"

\* DocsGenException(block, message); info carries the values formatted into
\* the message of a redeclaration
NoInfo == [name |-> <<>>, file |-> <<>>, line |-> 0]
NoExc == [raised |-> FALSE, block |-> <<>>, message |-> "", info |-> NoInfo]
DocsGenException(block, message) ==
  [raised |-> TRUE, block |-> block, message |-> message, info |-> NoInfo]

\* errorlog.add_entry(file, line, str(e), ErrorLog.FAIL)
add_entry(p, file, line, e, level) ==
  [p EXCEPT !.errorlog =
     Append(@, [file |-> file, line |-> line, block |-> e.block,
                message |-> e.message, info |-> e.info, level |-> level])]

(***************************************************************************)
(* _parse_meta_dict: a dict from each part's key to its value; a part      *)
(* without "=" has the value 1 (flag), a later part replaces an earlier.   *)
(***************************************************************************)
RECURSIVE MetaDictFrom(_, _)
MetaDictFrom(parts, d) ==
  IF parts = <<>> THEN d
  ELSE
    LET part == Head(parts)
        k == Find(part, "=", 1)
        key == IF k > 0 THEN SubSeq(part, 1, k - 1) ELSE part
        val == IF k > 0 THEN [flag |-> FALSE, str |-> Drop(part, k)]
               ELSE [flag |-> TRUE, str |-> <<>>]
    IN  MetaDictFrom(Tail(parts),
                     [x \in DOMAIN d \cup {key} |-> IF x = key THEN val ELSE d[x]])

_parse_meta_dict(meta) == MetaDictFrom(split(meta, ";"), <<>>)

\* a header_defs value: (parenttype, nodetype, extras, callback)
Rule(parcls, cls, data, cb) == [parcls |-> parcls, cls |-> cls, data |-> data, cb |-> cb]

\* a variant of the assignment that registers nothing
SetDef_none(p, title, rule) == p

\* self.header_defs[title] = rule
SetDef(p, title, rule) ==
  [p EXCEPT !.header_defs =
     [t \in DOMAIN @ \cup {title} |-> IF t = title THEN rule ELSE @[t]]]

\* [[x.strip() for x in hset.split("|")] for hset in meta["Headers"].split("||")]
HeaderSetOf(hset) == StripEach(split(hset, "|"))
HeaderSets(headers) ==
  LET hdr_meta == split2Bars(headers)
  IN  [i \in 1..Len(hdr_meta) |-> HeaderSetOf(hdr_meta[i])]

\* parentspec = ItemBlock if "ItemOnly" in meta else None
ParentSpec(meta) == IF s_ItemOnly \in DOMAIN meta THEN "ItemBlock" ELSE "None"

\* self.header_defs[title] = (parentspec, cls, None, None)
Defined(p, title, meta, cls) ==
  [p |-> SetDef(p, title, Rule(ParentSpec(meta), cls, <<>>, "None")),
   exc |-> NoExc, err |-> ""]

(***************************************************************************)
(* _define_blocktype.  The result is the parser, the DocsGenException      *)
(* raised (if any) and err, the name of any other exception raised.        *)
(***************************************************************************)
\* lines 184-211 of _define_blocktype, for the stripped title and the dict
DefineKind(p, title, meta) ==
  IF s_NumList \in DOMAIN meta THEN Defined(p, title, meta, "NumberedListBlock")
  ELSE IF s_BulletList \in DOMAIN meta THEN Defined(p, title, meta, "BulletListBlock")
  ELSE IF s_Table \in DOMAIN meta THEN
    IF s_Headers \notin DOMAIN meta
    THEN [p |-> p, err |-> "",
          exc |-> DocsGenException(s_DefineHeader,
                    "Table type is missing Header= option, while declaring block:")]
    \* Headers given without a value is the int 1, which has no split()
    ELSE IF meta[s_Headers].flag
    THEN [p |-> p, exc |-> NoExc, err |-> "AttributeError"]
    ELSE [p |-> SetDef(p, title,
                       Rule(ParentSpec(meta), "TableBlock", HeaderSets(meta[s_Headers].str),
                            "None")),
          exc |-> NoExc, err |-> ""]
  ELSE IF s_Example \in DOMAIN meta THEN Defined(p, title, meta, "ExampleBlock")
  ELSE IF s_Figure \in DOMAIN meta THEN Defined(p, title, meta, "FigureBlock")
  ELSE IF s_Label \in DOMAIN meta THEN Defined(p, title, meta, "LabelBlock")
  ELSE IF s_Text \in DOMAIN meta THEN Defined(p, title, meta, "TextBlock")
  ELSE IF s_Generic \in DOMAIN meta THEN Defined(p, title, meta, "GenericBlock")
  ELSE [p |-> p, err |-> "",
        exc |-> DocsGenException(s_DefineHeader,
                  "Could not parse target block type, while declaring block:")]

_define_blocktype(p, title0, meta0) == DefineKind(p, strip(title0), _parse_meta_dict(meta0))

\* _status_block_cb; self.curr_item is dereferenced
_status_block_cb(p, subtitle) ==
  IF p.curr_item = None THEN [p |-> p, err |-> "AttributeError"]
  ELSE [p |-> [p EXCEPT !.nodes[p.curr_item].deprecated = Contains(subtitle, s_DEPRECATED)],
        err |-> ""]

\* for alias in aliases: self.items_by_name[alias] = self.curr_item
RECURSIVE SetNames(_, _, _)
SetNames(index, names, item) ==
  IF names = <<>> THEN index
  ELSE SetNames([n \in DOMAIN index \cup {Head(names)} |->
                   IF n = Head(names) THEN item ELSE index[n]],
                Tail(names), item)

\* lines 140-142: self.curr_item.aliases.extend(aliases) and the loop
ExtendAliases(p, aliases) ==
  IF p.curr_item = None THEN [p |-> p, err |-> "AttributeError"]
  ELSE [p |-> [p EXCEPT !.nodes[p.curr_item].aliases = @ \o aliases,
                        !.items_by_name = SetNames(@, aliases, p.curr_item)],
        err |-> ""]

\* a variant of _alias_block_cb that does not strip the names
_alias_block_cb_unstripped(p, subtitle) == ExtendAliases(p, split(subtitle, ","))

\* _alias_block_cb
_alias_block_cb(p, subtitle) == ExtendAliases(p, StripEach(split(subtitle, ",")))

\* a variant of the closing that leaves the item open
CloseItem_keep(p) == p

\* the closing of the open item: curr_parent = curr_item.parent; curr_item = None
CloseItem(p) ==
  [p EXCEPT !.curr_parent = p.nodes[p.curr_item].parent, !.curr_item = None]

(***************************************************************************)
(* _skip_lines.  line_num is the 0-based index of the code; lines[k] of    *)
(* the code is lines[k + 1] here.                                          *)
(***************************************************************************)
RECURSIVE _skip_lines(_, _, _)
_skip_lines(p, lines, line_num) ==
  IF line_num < Len(lines) THEN
    LET line == lines[line_num + 1]
        q == IF p.curr_item # None /\ ~StartsWith(line, <<"/", "/">>)
             THEN CloseItem(p) ELSE p
    IN  IF _header_pat(line).matched THEN [p |-> q, line_num |-> line_num]
        ELSE _skip_lines(q, lines, line_num + 1)
  ELSE [p |-> IF p.curr_item # None THEN CloseItem(p) ELSE p, line_num |-> line_num]

\* lines 216-217: the new File block becomes the current file and parent
SetLibFile(q) ==
  [q EXCEPT !.curr_file_block = Len(q.nodes), !.curr_parent = Len(q.nodes),
            !.file_blocks = Append(@, Len(q.nodes))]

\* a variant of _mkfilenode that creates no File node
_mkfilenode_never(p, origin) == p

\* a variant of _mkfilenode without the test of self.curr_file_block
_mkfilenode_always(p, origin) ==
  SetLibFile(Construct(p, "FileBlock", s_LibFile, origin.file, <<>>, origin,
                       None, <<>>, <<>>))

\* _mkfilenode
_mkfilenode(p, origin) ==
  IF p.curr_file_block = None
  THEN SetLibFile(Construct(p, "FileBlock", s_LibFile, origin.file, <<>>, origin,
                            None, <<>>, <<>>))
  ELSE p

(***************************************************************************)
(* get_indexed_names: sorted(self.items_by_name.keys()), yielded one by    *)
(* one.  sorted compares str by the code points of the characters.         *)
(***************************************************************************)
\* the characters of code points 32 to 126, in order (the grave accent, 96,
\* by its name)
Ascii ==
  <<" ","!","\"","#","$","%","&","'","(",")","*","+",",","-",".","/",
    "0","1","2","3","4","5","6","7","8","9",":",";","<","=",">","?",
    "@","A","B","C","D","E","F","G","H","I","J","K","L","M","N","O",
    "P","Q","R","S","T","U","V","W","X","Y","Z","[","\\","]","^","_",
    "grave","a","b","c","d","e","f","g","h","i","j","k","l","m","n","o",
    "p","q","r","s","t","u","v","w","x","y","z","{","|","}","~">>

\* ord(c)
ord(c) == 31 + (CHOOSE i \in 1..Len(Ascii) : Ascii[i] = c)

\* a < b for two str
StrLess(a, b) ==
  \E k \in 1..(Len(a) + 1) :
    /\ k <= Len(b)
    /\ \A i \in 1..(k - 1) : a[i] = b[i]
    /\ k <= Len(a) => ord(a[k]) < ord(b[k])

\* sorted(S) for a set of str
RECURSIVE sorted(_)
sorted(S) ==
  IF S = {} THEN <<>>
  ELSE \* the least of S comes first
       LET least == CHOOSE x \in S : \A y \in S \ {x} : StrLess(x, y)
       IN  <<least>> \o sorted(S \ {least})

\* the items get_indexed_names yields, in order
get_indexed_names(p) == sorted(DOMAIN p.items_by_name)

(***************************************************************************)
(* The environment of the directives: the file system seen by glob.glob    *)
(* and the profiles Options.set_target accepts.                            *)
(***************************************************************************)
\* the files glob.glob can find
FsFiles == { <<"b">> }
\* glob.glob(pat) for a pattern without wildcards
glob(pat) == IF pat \in FsFiles THEN <<pat>> ELSE <<>>
\* the profile names set_target accepts
TargetProfiles == { <<"w","i","k","i">> }
set_target(name) == name \in TargetProfiles

\* str.upper() on the letters
LowerLetters == <<"a","b","c","d","e","f","g","h","i","j","k","l","m",
                  "n","o","p","q","r","s","t","u","v","w","x","y","z">>
UpperLetters == <<"A","B","C","D","E","F","G","H","I","J","K","L","M",
                  "N","O","P","Q","R","S","T","U","V","W","X","Y","Z">>
UpperChar(c) ==
  IF c \in Lower THEN UpperLetters[CHOOSE i \in 1..26 : LowerLetters[i] = c] ELSE c
upper(s) == [i \in 1..Len(s) |-> UpperChar(s[i])]

\* [x for line in body for x in glob.glob(line.strip())]
RECURSIVE GlobAll(_)
GlobAll(body) ==
  IF body = <<>> THEN <<>> ELSE glob(strip(Head(body))) \o GlobAll(Tail(body))

\* the keys of ignored_files after the loop over ignored_file_pats
IgnoredOf(pats) == { f \in FsFiles : \E i \in 1..Len(pats) : f = pats[i] }

\* the loop of GenerateDocs over subtitle.split(","): the flags set so far
\* stay set when a part is unknown; bad is that part, stripped
RECURSIVE GenParts(_, _)
GenParts(opts, parts) ==
  IF parts = <<>> THEN [opts |-> opts, unknown |-> FALSE, bad |-> <<>>]
  ELSE
    LET orig_part == strip(Head(parts))
        part == upper(orig_part)
    IN  IF part = s_FILES THEN GenParts([opts EXCEPT !.gen_files = TRUE], Tail(parts))
        ELSE IF part = s_TOC THEN GenParts([opts EXCEPT !.gen_toc = TRUE], Tail(parts))
        ELSE IF part = s_INDEX THEN GenParts([opts EXCEPT !.gen_index = TRUE], Tail(parts))
        ELSE IF part = s_TOPICS THEN GenParts([opts EXCEPT !.gen_topics = TRUE], Tail(parts))
        ELSE IF part \in {s_CHEAT, s_CHEATSHEET}
             THEN GenParts([opts EXCEPT !.gen_cheat = TRUE], Tail(parts))
        ELSE IF part = s_SIDEBAR THEN GenParts([opts EXCEPT !.gen_sidebar = TRUE], Tail(parts))
        ELSE [opts |-> opts, unknown |-> TRUE, bad |-> orig_part]

\* [[x.strip() for x in part.strip().split('=',1)] for part in subtitle.split(";")]
Footnote(part) ==
  LET s == strip(part)
      k == Find(s, "=", 1)
  IN  IF k = 0 THEN <<strip(s)>> ELSE <<strip(SubSeq(s, 1, k - 1)), strip(Drop(s, k))>>

\* for line in body: cls(title, subtitle, [line], ...); subtitle = ""
RECURSIVE ConstructEach(_, _, _, _, _, _, _, _)
ConstructEach(p, cls, title, subtitle, body, origin, parent, meta) ==
  IF body = <<>> THEN p
  ELSE ConstructEach(
         Construct(p, cls, title, subtitle, <<Head(body)>>, origin, parent, meta, <<>>),
         cls, title, <<>>, Tail(body), origin, parent, meta)

ItemTitles == {s_Constant, s_Function, s_Module, s_FunctionModule}

(***************************************************************************)
(* The body of the try statement of _parse_block up to the dispatch chain's *)
(* end (lines 251-422).  The result is the parser at the moment the chain  *)
(* ends or raises, the DocsGenException raised (exc) and the name of any   *)
(* other exception raised (err).                                           *)
(***************************************************************************)
\* a variant of Redeclared that never finds the name
Redeclared_never(p, subtitle) == FALSE

\* subtitle in self.items_by_name (line 407)
Redeclared(p, subtitle) == subtitle \in DOMAIN p.items_by_name

\* a variant of OutsideRc that takes every source for the configuration file
OutsideRc_never(origin) == FALSE

\* origin.file != self.RCFILE, the test of the six configuration directives
OutsideRc(origin) == origin.file # RCFILE

\* a branch of the chain that ends normally, and one that raises
Ok(q) == [p |-> q, exc |-> NoExc, err |-> ""]
Raise(q, title, message) == [p |-> q, exc |-> DocsGenException(title, message), err |-> ""]

\* a callback of the registry has run (a callback raises no DocsGenException)
Called(c) == [p |-> c.p, exc |-> NoExc, err |-> c.err]

\* lines 258-267: the patterns are extended and ignored_files is rebuilt
SetIgnored(p, pats) ==
  [p EXCEPT !.ignored_file_pats = pats, !.ignored_files = IgnoredOf(pats)]

\* lines 308-324, from the result of the loop over the parts
GenerateDocs(p, title, g) ==
  IF g.unknown
  THEN Raise([p EXCEPT !.opts = g.opts], title, "Unknown type \"{}\", while declaring block:")
  ELSE Ok([p EXCEPT !.opts = g.opts])

\* lines 330-334: the new File block becomes the current file and parent
SetFileBlock(q) ==
  [q EXCEPT !.curr_file_block = Len(q.nodes), !.curr_section = None,
            !.curr_subsection = None, !.curr_parent = Len(q.nodes),
            !.file_blocks = Append(@, Len(q.nodes))]

\* a variant that makes the new block a child of the current parent
ConstructInFile_parent(q, cls, title, subtitle, body, origin) ==
  Construct(q, cls, title, subtitle, body, origin, q.curr_parent, <<>>, <<>>)

\* cls(title, subtitle, body, origin, parent=self.curr_file_block)
ConstructInFile(q, cls, title, subtitle, body, origin) ==
  Construct(q, cls, title, subtitle, body, origin, q.curr_file_block, <<>>, <<>>)

\* a variant of StrictNoFile that never holds
StrictNoFile_never(p) == FALSE

\* line 335: not self.curr_file_block and self.strict
StrictNoFile(p) == p.curr_file_block = None /\ p.strict

\* a variant of NoSection for which a Section is always open
NoSection_never(p) == FALSE

\* line 344: not self.curr_section
NoSection(p) == p.curr_section = None

\* lines 340-342: the new Section becomes the current section and parent
SetSection(r) ==
  [r EXCEPT !.curr_section = Len(r.nodes), !.curr_subsection = None,
            !.curr_parent = Len(r.nodes)]

\* lines 348-349: the new Subsection becomes the current subsection and parent
SetSubsection(r) == [r EXCEPT !.curr_subsection = Len(r.nodes), !.curr_parent = Len(r.nodes)]

\* self.curr_file_block.<attr> = value (lines 357, 362, 367)
SetFileAttr(q, attr, value) ==
  [q EXCEPT !.nodes[q.curr_file_block] = [@ EXCEPT ![attr] = value]]

\* self.curr_file_block.common_code.extend(body)
ExtendCommonCode(q, body) == [q EXCEPT !.nodes[q.curr_file_block].common_code = @ \o body]

\* the footnotes comprehension over subtitle.split(";")
Footnotes(parts) == [i \in 1..Len(parts) |-> Footnote(parts[i])]

\* lines 393-398: the constructor call chosen by the class of the rule
ConstructDefined(p, rule, title, subtitle, body, origin, parent, meta) ==
  IF rule.cls \in {"GenericBlock", "LabelBlock", "TextBlock",
                   "NumberedListBlock", "BulletListBlock"}
  THEN Construct(p, rule.cls, title, subtitle, body, origin, parent, <<>>, <<>>)
  ELSE IF rule.cls = "TableBlock"
  THEN Construct(p, rule.cls, title, subtitle, body, origin, parent, <<>>, rule.data)
  ELSE IF rule.cls \in {"FigureBlock", "ExampleBlock"}
  THEN Construct(p, rule.cls, title, subtitle, body, origin, parent, meta, <<>>)
  ELSE p

\* lines 399-400: if cb: cb(title, subtitle, body, origin, meta)
Callback(q, cb, subtitle) ==
  IF cb = "_status_block_cb" THEN Called(_status_block_cb(q, subtitle))
  ELSE IF cb = "_alias_block_cb" THEN Called(_alias_block_cb(q, subtitle))
  ELSE Ok(q)

\* a variant of the registry branch without the test of the parent kind
DefinedBlock_any(p, rule, title, subtitle, body, origin, parent, meta) ==
  Callback(ConstructDefined(p, rule, title, subtitle, body, origin, parent, meta),
           rule.cb, subtitle)

\* lines 391-400: a title of the registry
DefinedBlock(p, rule, title, subtitle, body, origin, parent, meta) ==
  IF rule.parcls = "None" \/ IsItem(p, p.curr_parent)
  THEN Callback(ConstructDefined(p, rule, title, subtitle, body, origin, parent, meta),
                rule.cb, subtitle)
  ELSE Ok(p)

\* lines 404-405: an anonymous Section when the file has none
AnonymousSection(q, origin) ==
  IF q.curr_section = None
  THEN [ConstructInFile(q, "SectionBlock", s_Section, <<>>, <<>>, origin)
          EXCEPT !.curr_section = Len(q.nodes) + 1]
  ELSE q

\* line 406: parent = self.curr_parent = self.curr_section
ParentIsSection(r) == [r EXCEPT !.curr_parent = r.curr_section]

\* lines 408-410: the exception that names the previous declaration
PreviousDeclaration(title, subtitle, prevorig) ==
  [raised |-> TRUE, block |-> title,
   message |-> "Previous declaration of {} at {}:{}, Redeclared:",
   info |-> [name |-> subtitle, file |-> prevorig.file, line |-> prevorig.line]]

\* a variant in which the new Item becomes the current parent but not the
\* current item
SetItem_parent(c, subtitle) ==
  [c EXCEPT !.items_by_name = SetNames(@, <<subtitle>>, Len(c.nodes)),
            !.curr_parent = Len(c.nodes)]

\* lines 412-414: the new Item is indexed and becomes the current item and parent
SetItem(c, subtitle) ==
  [c EXCEPT !.items_by_name = SetNames(@, <<subtitle>>, Len(c.nodes)),
            !.curr_item = Len(c.nodes), !.curr_parent = Len(c.nodes)]

\* lines 407-414: the item branch once the File node and the Section exist
DeclareItem(s, title, subtitle, body, origin) ==
  IF Redeclared(s, subtitle)
  THEN [p |-> s, err |-> "",
        exc |-> PreviousDeclaration(title, subtitle,
                                    s.nodes[s.items_by_name[subtitle]].origin)]
  ELSE Ok(SetItem(Construct(s, "ItemBlock", title, subtitle, body, origin,
                            s.curr_section, <<>>, <<>>),
                  subtitle))

\* a variant of ItemOpen for which an Item is always open
ItemOpen_always(p) == TRUE

\* lines 378, 386, 416, 419: if self.curr_item
ItemOpen(p) == p.curr_item # None

\* body.insert(0, subtitle) when the subtitle is not empty
WithSubtitle(subtitle, body) == IF subtitle # <<>> THEN <<subtitle>> \o body ELSE body

Dispatch(p, title, meta, subtitle, body, origin) ==
  IF title = s_DefineHeader THEN _define_blocktype(p, subtitle, meta)
  ELSE IF title = s_IgnoreFiles THEN
    IF OutsideRc(origin) THEN Raise(p, title, "Block disallowed outside of {} file:")
    ELSE Ok(SetIgnored(p, p.ignored_file_pats \o StripEach(WithSubtitle(subtitle, body))))
  ELSE IF title = s_PrioritizeFiles THEN
    IF OutsideRc(origin) THEN Raise(p, title, "Block disallowed outside of {} file:")
    ELSE Ok([p EXCEPT !.priority_files = GlobAll(WithSubtitle(subtitle, body))])
  ELSE IF title = s_DocsDirectory THEN
    IF OutsideRc(origin) THEN Raise(p, title, "Block disallowed outside of {} file:")
    ELSE IF body # <<>> THEN Raise(p, title, "Body not supported, while declaring block:")
    ELSE Ok([p EXCEPT !.opts.docs_dir = rstripSlash(strip(subtitle))])
  ELSE IF title = s_ProjectName THEN
    IF OutsideRc(origin) THEN Raise(p, title, "Block disallowed outside of {} file:")
    ELSE IF body # <<>> THEN Raise(p, title, "Body not supported, while declaring block:")
    ELSE Ok([p EXCEPT !.opts.project_name = strip(subtitle)])
  ELSE IF title = s_TargetProfile THEN
    IF OutsideRc(origin) THEN Raise(p, title, "Block disallowed outside of {} file:")
    ELSE IF body # <<>> THEN Raise(p, title, "Body not supported, while declaring block:")
    ELSE IF ~set_target(strip(subtitle))
    THEN Raise(p, title, "Body not supported, while declaring block:")
    ELSE Ok([p EXCEPT !.opts.target_profile = strip(subtitle)])
  ELSE IF title = s_GenerateDocs THEN
    IF OutsideRc(origin) THEN Raise(p, title, "Block disallowed outside of {} file:")
    ELSE IF body # <<>> THEN Raise(p, title, "Body not supported, while declaring block:")
    ELSE IF p.opts.gen_files \/ p.opts.gen_toc \/ p.opts.gen_index
            \/ p.opts.gen_topics \/ p.opts.gen_cheat
    THEN Ok(p)
    ELSE GenerateDocs(p, title, GenParts(p.opts, split(subtitle, ",")))
  ELSE IF title = s_vim \/ title = s_emacs THEN Ok(p)
  ELSE IF title \in {s_File, s_LibFile} THEN
    IF p.curr_file_block # None
    THEN Raise(p, title, "File/Libfile block already specified, while declaring block:")
    ELSE Ok(SetFileBlock(Construct(p, "FileBlock", title, subtitle, body, origin,
                                   None, <<>>, <<>>)))
  ELSE IF StrictNoFile(p)
  THEN Raise(p, title, "Must declare File or LibFile block before declaring block:")
  ELSE IF title = s_Section THEN
    Ok(SetSection(ConstructInFile(_mkfilenode(p, origin), "SectionBlock", title, subtitle,
                                  body, origin)))
  ELSE IF title = s_Subsection THEN
    IF NoSection(p)
    THEN Raise(p, title, "Must declare a Section before declaring block:")
    ELSE IF subtitle = <<>>
    THEN Raise(p, title, "Must provide a subtitle when declaring block:")
    ELSE Ok(SetSubsection(Construct(p, "SubsectionBlock", title, subtitle, body, origin,
                                    p.curr_section, <<>>, <<>>)))
  ELSE IF title = s_Includes THEN
    Ok(ConstructInFile(_mkfilenode(p, origin), "IncludesBlock", title, subtitle, body, origin))
  ELSE IF title = s_FileSummary THEN
    IF subtitle = <<>> THEN Raise(p, title, "Must provide a subtitle when declaring block:")
    ELSE Ok(SetFileAttr(_mkfilenode(p, origin), "summary", strip(subtitle)))
  ELSE IF title = s_FileGroup THEN
    IF subtitle = <<>> THEN Raise(p, title, "Must provide a subtitle when declaring block:")
    ELSE Ok(SetFileAttr(_mkfilenode(p, origin), "group", strip(subtitle)))
  ELSE IF title = s_FileFootnotes THEN
    IF subtitle = <<>> THEN Raise(p, title, "Must provide a subtitle when declaring block:")
    ELSE Ok(SetFileAttr(_mkfilenode(p, origin), "footnotes", Footnotes(split(subtitle, ";"))))
  ELSE IF title = s_CommonCode THEN
    Ok(ExtendCommonCode(_mkfilenode(p, origin), body))
  ELSE IF title = s_Figure THEN
    Ok(Construct(_mkfilenode(p, origin), "FigureBlock", title, subtitle, body, origin,
                 p.curr_parent, meta, <<>>))
  ELSE IF title = s_Example THEN
    IF ItemOpen(p)
    THEN Ok(Construct(p, "ExampleBlock", title, subtitle, body, origin, p.curr_parent,
                      meta, <<>>))
    ELSE Ok(p)
  ELSE IF title = s_Figures THEN
    Ok(ConstructEach(_mkfilenode(p, origin), "FigureBlock", s_Figure, subtitle, body,
                     origin, p.curr_parent, meta))
  ELSE IF title = s_Examples THEN
    IF ItemOpen(p)
    THEN Ok(ConstructEach(p, "ExampleBlock", s_Example, subtitle, body, origin,
                          p.curr_parent, meta))
    ELSE Ok(p)
  ELSE IF title \in DOMAIN p.header_defs THEN
    DefinedBlock(p, p.header_defs[title], title, subtitle, body, origin, p.curr_parent, meta)
  ELSE IF title \in ItemTitles THEN
    DeclareItem(ParentIsSection(AnonymousSection(_mkfilenode(p, origin), origin)),
                title, subtitle, body, origin)
  ELSE IF title = s_Topics THEN
    IF ItemOpen(p)
    THEN Ok(Construct(p, "TopicsBlock", title, subtitle, body, origin, p.curr_parent,
                      <<>>, <<>>))
    ELSE Ok(p)
  ELSE IF title = s_SeeAlso THEN
    IF ItemOpen(p)
    THEN Ok(Construct(p, "SeeAlsoBlock", title, subtitle, body, origin, p.curr_parent,
                      <<>>, <<>>))
    ELSE Ok(p)
  ELSE Raise(p, title, "Unrecognized block:")

(***************************************************************************)
(* The body extraction loop of _parse_block (lines 234-248).  raised tells *)
(* that the loop raised the DocsGenException of line 240, which no try     *)
(* statement encloses.                                                     *)
(***************************************************************************)
\* a variant of the body loop that takes no line
BodyLoop_none(lines, line_num, first_line, indent, body) ==
  [raised |-> FALSE, body |-> body, line_num |-> line_num, indent |-> indent]

RECURSIVE BodyLoop(_, _, _, _, _)
BodyLoop(lines, line_num, first_line, indent, body) ==
  IF line_num < Len(lines) THEN
    LET line == lines[line_num + 1]
    IN  IF ~StartsWith(line, <<"/", "/">> \o Spaces(indent)) THEN
          [raised |-> StartsWith(line, <<"/", "/", " ", " ">>),
           body |-> body, line_num |-> line_num, indent |-> indent]
        ELSE
          LET rest == Drop(line, 2)
              ind == IF first_line THEN Len(rest) - Len(lstrip(rest)) ELSE indent
          IN  BodyLoop(lines, line_num + 1, FALSE, ind,
                       Append(body, rstrip(Drop(rest, ind))))
  ELSE [raised |-> FALSE, body |-> body, line_num |-> line_num, indent |-> indent]

\* what one call of _parse_block did, for the statement of the properties
\* (parent, item, file and section are curr_parent, curr_item, curr_file_block
\* and curr_section when the try statement is entered; parent is the local
\* variable of line 251)
NoBlock ==
  [found |-> FALSE, hdr_line_num |-> 0, title |-> <<>>, meta |-> <<>>,
   subtitle |-> <<>>, body |-> <<>>, body_end |-> 0, dispatched |-> FALSE,
   exc |-> NoExc, parent |-> None, item |-> None, file |-> None, section |-> None]

\* the record of the block met, before the try statement is entered
BlockMet(p, hdr_line_num, title, meta, subtitle, bl) ==
  [found |-> TRUE, hdr_line_num |-> hdr_line_num, title |-> title,
   meta |-> meta, subtitle |-> subtitle, body |-> bl.body,
   body_end |-> bl.line_num, dispatched |-> FALSE, exc |-> NoExc,
   parent |-> p.curr_parent, item |-> p.curr_item,
   file |-> p.curr_file_block, section |-> p.curr_section]

\* lines 424-427: the item is closed when the comment block ends
EndOfComment(p, lines, line_num) ==
  IF line_num >= Len(lines) \/ ~StartsWith(lines[line_num + 1], <<"/", "/">>)
  THEN IF p.curr_item # None THEN CloseItem(p) ELSE [p EXCEPT !.curr_item = None]
  ELSE p

\* line 428 and the return: line_num = self._skip_lines(lines, line_num)
Skipped(sk2, done) == [p |-> sk2.p, line_num |-> sk2.line_num, err |-> "", blk |-> done]

\* lines 424-433, from the outcome d of the dispatch chain
_parse_block_end(d, lines, line_num, origin, done) ==
  IF d.err # ""
  THEN [p |-> d.p, line_num |-> line_num, err |-> d.err, blk |-> done]
  ELSE IF d.exc.raised
  THEN [p |-> add_entry(d.p, origin.file, origin.line, d.exc, "FAIL"),
        line_num |-> line_num, err |-> "", blk |-> done]
  ELSE Skipped(_skip_lines(EndOfComment(d.p, lines, line_num), lines, line_num), done)

\* lines 250-433: the try statement, entered with the block bm
_parse_block_try(p, lines, bl, origin, bm, d) ==
  _parse_block_end(d, lines, bl.line_num, origin,
                   [bm EXCEPT !.dispatched = TRUE, !.exc = d.exc])

\* lines 231-433, from the header's title, meta and subtitle and the outcome
\* bl of the body loop
_parse_block_body(p, lines, hdr_line_num, src_file, title, meta, subtitle, bl) ==
  IF bl.raised
  THEN [p |-> p, line_num |-> bl.line_num, err |-> "DocsGenException",
        blk |-> BlockMet(p, hdr_line_num, title, meta, subtitle, bl)]
  ELSE _parse_block_try(p, lines, bl, OriginInfo(src_file, hdr_line_num + 1),
                        BlockMet(p, hdr_line_num, title, meta, subtitle, bl),
                        Dispatch(p, title, meta, subtitle, bl.body,
                                 OriginInfo(src_file, hdr_line_num + 1)))

\* lines 226-433, from the match of the header pattern
_parse_block_header(p, lines, hdr_line_num, src_file, match) ==
  IF ~match.matched
  THEN [p |-> p, line_num |-> hdr_line_num, err |-> "", blk |-> NoBlock]
  ELSE _parse_block_body(
         p, lines, hdr_line_num, src_file, match.g1,
         IF match.g3 # <<>> THEN SubSeq(match.g3, 2, Len(match.g3) - 1) ELSE <<>>,
         IF match.g4 # <<>> THEN strip(match.g4) ELSE <<>>,
         BodyLoop(lines, hdr_line_num + 1, TRUE, 2, <<>>))

\* lines 221-433, from the result sk of the first _skip_lines
_parse_block_skipped(sk, lines, src_file) ==
  IF sk.line_num >= Len(lines)
  THEN [p |-> sk.p, line_num |-> sk.line_num, err |-> "", blk |-> NoBlock]
  ELSE _parse_block_header(sk.p, lines, sk.line_num, src_file,
                           _header_pat(lines[sk.line_num + 1]))

(***************************************************************************)
(* _parse_block.  The result is the parser, the line index returned, err   *)
(* (the name of an exception that escapes the call, or "") and blk, the    *)
(* record of the block met.                                                *)
(***************************************************************************)
_parse_block(p, lines, line_num0, src_file) ==
  _parse_block_skipped(_skip_lines(p, lines, line_num0), lines, src_file)

\* the loop of parse_lines after a call of _parse_block
RECURSIVE parse_lines(_, _, _, _)
parse_lines_next(r, lines, src_file) ==
  IF r.err # "" THEN [p |-> r.p, err |-> r.err]
  ELSE parse_lines(r.p, lines, r.line_num, src_file)

\* parse_lines: the loop, run to its end or to the first escaping exception
parse_lines(p, lines, line_num, src_file) ==
  IF line_num < Len(lines)
  THEN parse_lines_next(_parse_block(p, lines, line_num, src_file), lines, src_file)
  ELSE [p |-> p, err |-> ""]

\* the four built-in rules of _reset_header_defs
BuiltinDefs ==
  [t \in {s_Status, s_Alias, s_Aliases, s_Arguments} |->
     IF t = s_Status THEN Rule("ItemBlock", "LabelBlock", <<>>, "_status_block_cb")
     ELSE IF t = s_Arguments THEN Rule("ItemBlock", "TableBlock", ArgumentsHeaders, "None")
     ELSE Rule("ItemBlock", "LabelBlock", <<>>, "_alias_block_cb")]

\* ["// " + line for line in f.readlines()]
Commented(flines) == [i \in 1..Len(flines) |-> <<"/", "/", " ">> \o flines[i]]

\* lines 130-133: the configuration file is parsed when it exists
ReadRc(a, rc) ==
  IF a.err = "" /\ rc.exists THEN parse_lines(a.p, Commented(rc.lines), 0, RCFILE) ELSE a

\* the registry with the built-in rules added to it, rules of the same title
\* replaced
KeptDefs(defs) ==
  [t \in DOMAIN BuiltinDefs \cup DOMAIN defs |->
     IF t \in DOMAIN BuiltinDefs THEN BuiltinDefs[t] ELSE defs[t]]

\* a variant of _reset_header_defs that updates the dict instead of replacing it
_reset_header_defs_keep(p, rc) ==
  ReadRc(parse_lines([p EXCEPT !.header_defs = KeptDefs(@)], DefaultLines, 0, s_Defaults), rc)

(***************************************************************************)
(* _reset_header_defs.  rc is the configuration file: whether it exists    *)
(* and its lines.                                                          *)
(***************************************************************************)
_reset_header_defs(p, rc) ==
  ReadRc(parse_lines([p EXCEPT !.header_defs = BuiltinDefs], DefaultLines, 0, s_Defaults), rc)

\* the options as the command line leaves them when it names no document type
InitOpts ==
  [docs_dir |-> <<>>, project_name |-> <<>>, target_profile |-> <<>>,
   gen_files |-> FALSE, gen_toc |-> FALSE, gen_index |-> FALSE,
   gen_topics |-> FALSE, gen_cheat |-> FALSE, gen_sidebar |-> FALSE]

\* DocsGenParser.__init__
New(strict0, rc) ==
  _reset_header_defs(
    [strict |-> strict0, file_blocks |-> <<>>, curr_file_block |-> None,
     curr_section |-> None, curr_subsection |-> None, curr_item |-> None,
     curr_parent |-> None, ignored_file_pats |-> <<>>, ignored_files |-> {},
     priority_files |-> <<>>, items_by_name |-> <<>>, header_defs |-> <<>>,
     opts |-> InitOpts, nodes |-> <<>>, errorlog |-> <<>>],
    rc)

(***************************************************************************)
(* The lines the units are made of.                                        *)
(***************************************************************************)
\* the lines, as text:
\*   LibFile: // LibFile: foo.scad
\*   Section: // Section: S
\*   Subsection: // Subsection: T
\*   SubsectionEmpty: // Subsection:
\*   FunctionF: // Function: f()
\*   ModuleG: // Module: g()
\*   FunctionH: // Function: h
\*   AliasF: // Alias: f()
\*   AliasesGH: // Aliases: g(), h
\*   Status: // Status: DEPRECATED
\*   Text: // Text: t
\*   Topics: // Topics: t
\*   Figure: // Figure: g
\*   Example: // Example: e
\*   Bogus: // Bogus: x
\*   Note: // Note: n
\*   DefNoteLabel: // DefineHeader(Label): Note
\*   DefNoteItemOnly: // DefineHeader(Text;ItemOnly): Note
\*   DefAliasesText: // DefineHeader(Text): Aliases
\*   DefNone: // DefineHeader(ItemOnly): Note
\*   DefTwo: // DefineHeader(Text;Label): Note
\*   DefTable: // DefineHeader(Table;Headers=A|B): Note
\*   IgnoreFiles: // IgnoreFiles: b
\*   PrioritizeFiles: // PrioritizeFiles: b
\*   DocsDirectory: // DocsDirectory: d/
\*   ProjectName: // ProjectName: P
\*   TargetProfile: // TargetProfile: wiki
\*   GenerateDocs: // GenerateDocs: Files, toc
\*   DefFunction: // DefineHeader(Generic): Function
\*   Body3: //   b
\*   Body5: //     a
\*   Body2: //  c
\*   Code: x = 1;
\*   DefMyTable: // DefineHeader(Table;Headers=A|B): MyTable
\*   DefNumTable: // DefineHeader(NumList;Table): MyTable
\*   DefTableNoHeaders: // DefineHeader(Table): MyTable
\*   DefTableFlag: // DefineHeader(Table;Headers): MyTable
\*   DefTableSets: // DefineHeader(Table;Headers= A | B ||C): MyTable
\*   MyTable: // MyTable:
\*   Body3c: //   c
\*   SeeAlso: // See Also: s
\*   DefTopicsText: // DefineHeader(Text): Topics
\*   FunctionBar: // Function: bar()
\*   Description: //   Description
\*   Dashes: //   -----------
\*   DoesAThing: //   Does a thing.
\*   Body1: // d
\*   BodyTab: //  <TAB>x
\*   BodyBlank: //   
\*   BodyTrail: //    e  
\*   Bare: //
\*   FunctionLowerA: // Function: a
\*   FunctionUpperB: // Function: B
\*   ModuleAb: // Module: Ab
\*   AliasesCaB: // Aliases: C, aB
\*   DefSectionItemOnly: // DefineHeader(Text;ItemOnly): Section
\*   DefDemoExample: // DefineHeader(Example): Demo
\*   Demo: // Demo: d
\*   DefNoteNumList: // DefineHeader(NumList): Note
\*   DefVimText: // DefineHeader(Text): vim
\*   Vim: // vim: x
\* the catalogue of lines, by name
L ==
  [LibFile |->
     <<"/","/"," ","L","i","b","F","i","l","e",":"," ","f","o","o",".","s","c","a","d">>,
   Section |->
     <<"/","/"," ","S","e","c","t","i","o","n",":"," ","S">>,
   Subsection |->
     <<"/","/"," ","S","u","b","s","e","c","t","i","o","n",":"," ","T">>,
   SubsectionEmpty |->
     <<"/","/"," ","S","u","b","s","e","c","t","i","o","n",":">>,
   FunctionF |->
     <<"/","/"," ","F","u","n","c","t","i","o","n",":"," ","f","(",")">>,
   ModuleG |->
     <<"/","/"," ","M","o","d","u","l","e",":"," ","g","(",")">>,
   FunctionH |->
     <<"/","/"," ","F","u","n","c","t","i","o","n",":"," ","h">>,
   AliasF |->
     <<"/","/"," ","A","l","i","a","s",":"," ","f","(",")">>,
   AliasesGH |->
     <<"/","/"," ","A","l","i","a","s","e","s",":"," ","g","(",")",","," ","h">>,
   Status |->
     <<"/","/"," ","S","t","a","t","u","s",":"," ","D","E","P","R","E","C","A","T","E","D">>,
   Text |->
     <<"/","/"," ","T","e","x","t",":"," ","t">>,
   Topics |->
     <<"/","/"," ","T","o","p","i","c","s",":"," ","t">>,
   Figure |->
     <<"/","/"," ","F","i","g","u","r","e",":"," ","g">>,
   Example |->
     <<"/","/"," ","E","x","a","m","p","l","e",":"," ","e">>,
   Bogus |->
     <<"/","/"," ","B","o","g","u","s",":"," ","x">>,
   Note |->
     <<"/","/"," ","N","o","t","e",":"," ","n">>,
   DefNoteLabel |->
     <<"/","/"," ","D","e","f","i","n","e","H","e","a","d","e","r","(","L","a","b","e","l",")",":"," ","N","o","t","e">>,
   DefNoteItemOnly |->
     <<"/","/"," ","D","e","f","i","n","e","H","e","a","d","e","r","(","T","e","x","t",";","I","t","e","m","O","n","l","y",")",":"," ","N","o","t","e">>,
   DefAliasesText |->
     <<"/","/"," ","D","e","f","i","n","e","H","e","a","d","e","r","(","T","e","x","t",")",":"," ","A","l","i","a","s","e","s">>,
   DefNone |->
     <<"/","/"," ","D","e","f","i","n","e","H","e","a","d","e","r","(","I","t","e","m","O","n","l","y",")",":"," ","N","o","t","e">>,
   DefTwo |->
     <<"/","/"," ","D","e","f","i","n","e","H","e","a","d","e","r","(","T","e","x","t",";","L","a","b","e","l",")",":"," ","N","o","t","e">>,
   DefTable |->
     <<"/","/"," ","D","e","f","i","n","e","H","e","a","d","e","r","(","T","a","b","l","e",";","H","e","a","d","e","r","s","=","A","|","B",")",":"," ","N","o","t","e">>,
   IgnoreFiles |->
     <<"/","/"," ","I","g","n","o","r","e","F","i","l","e","s",":"," ","b">>,
   PrioritizeFiles |->
     <<"/","/"," ","P","r","i","o","r","i","t","i","z","e","F","i","l","e","s",":"," ","b">>,
   DocsDirectory |->
     <<"/","/"," ","D","o","c","s","D","i","r","e","c","t","o","r","y",":"," ","d","/">>,
   ProjectName |->
     <<"/","/"," ","P","r","o","j","e","c","t","N","a","m","e",":"," ","P">>,
   TargetProfile |->
     <<"/","/"," ","T","a","r","g","e","t","P","r","o","f","i","l","e",":"," ","w","i","k","i">>,
   GenerateDocs |->
     <<"/","/"," ","G","e","n","e","r","a","t","e","D","o","c","s",":"," ","F","i","l","e","s",","," ","t","o","c">>,
   DefFunction |->
     <<"/","/"," ","D","e","f","i","n","e","H","e","a","d","e","r","(","G","e","n","e","r","i","c",")",":"," ","F","u","n","c","t","i","o","n">>,
   Body3 |->
     <<"/","/"," "," "," ","b">>,
   Body5 |->
     <<"/","/"," "," "," "," "," ","a">>,
   Body2 |->
     <<"/","/"," "," ","c">>,
   Code |->
     <<"x"," ","="," ","1",";">>,
   DefMyTable |->
     <<"/","/"," ","D","e","f","i","n","e","H","e","a","d","e","r","(","T","a","b","l","e",";","H","e","a","d","e","r","s","=","A","|","B",")",":"," ","M","y","T","a","b","l","e">>,
   DefNumTable |->
     <<"/","/"," ","D","e","f","i","n","e","H","e","a","d","e","r","(","N","u","m","L","i","s","t",";","T","a","b","l","e",")",":"," ","M","y","T","a","b","l","e">>,
   DefTableNoHeaders |->
     <<"/","/"," ","D","e","f","i","n","e","H","e","a","d","e","r","(","T","a","b","l","e",")",":"," ","M","y","T","a","b","l","e">>,
   DefTableFlag |->
     <<"/","/"," ","D","e","f","i","n","e","H","e","a","d","e","r","(","T","a","b","l","e",";","H","e","a","d","e","r","s",")",":"," ","M","y","T","a","b","l","e">>,
   DefTableSets |->
     <<"/","/"," ","D","e","f","i","n","e","H","e","a","d","e","r","(","T","a","b","l","e",";","H","e","a","d","e","r","s","="," ","A"," ","|"," ","B"," ","|","|","C",")",":"," ","M","y","T","a","b","l","e">>,
   MyTable |->
     <<"/","/"," ","M","y","T","a","b","l","e",":">>,
   Body3c |->
     <<"/","/"," "," "," ","c">>,
   SeeAlso |->
     <<"/","/"," ","S","e","e"," ","A","l","s","o",":"," ","s">>,
   DefTopicsText |->
     <<"/","/"," ","D","e","f","i","n","e","H","e","a","d","e","r","(","T","e","x","t",")",":"," ","T","o","p","i","c","s">>,
   FunctionBar |->
     <<"/","/"," ","F","u","n","c","t","i","o","n",":"," ","b","a","r","(",")">>,
   Description |->
     <<"/","/"," "," "," ","D","e","s","c","r","i","p","t","i","o","n">>,
   Dashes |->
     <<"/","/"," "," "," ","-","-","-","-","-","-","-","-","-","-","-">>,
   DoesAThing |->
     <<"/","/"," "," "," ","D","o","e","s"," ","a"," ","t","h","i","n","g",".">>,
   Body1 |->
     <<"/","/"," ","d">>,
   BodyTab |->
     <<"/","/"," "," ","\t","x">>,
   BodyBlank |->
     <<"/","/"," "," "," ">>,
   BodyTrail |->
     <<"/","/"," "," "," "," ","e"," "," ">>,
   Bare |->
     <<"/","/">>,
   FunctionLowerA |->
     <<"/","/"," ","F","u","n","c","t","i","o","n",":"," ","a">>,
   FunctionUpperB |->
     <<"/","/"," ","F","u","n","c","t","i","o","n",":"," ","B">>,
   ModuleAb |->
     <<"/","/"," ","M","o","d","u","l","e",":"," ","A","b">>,
   AliasesCaB |->
     <<"/","/"," ","A","l","i","a","s","e","s",":"," ","C",","," ","a","B">>,
   DefSectionItemOnly |->
     <<"/","/"," ","D","e","f","i","n","e","H","e","a","d","e","r","(","T","e","x","t",";","I","t","e","m","O","n","l","y",")",":"," ","S","e","c","t","i","o","n">>,
   DefDemoExample |->
     <<"/","/"," ","D","e","f","i","n","e","H","e","a","d","e","r","(","E","x","a","m","p","l","e",")",":"," ","D","e","m","o">>,
   Demo |->
     <<"/","/"," ","D","e","m","o",":"," ","d">>,
   DefNoteNumList |->
     <<"/","/"," ","D","e","f","i","n","e","H","e","a","d","e","r","(","N","u","m","L","i","s","t",")",":"," ","N","o","t","e">>,
   DefVimText |->
     <<"/","/"," ","D","e","f","i","n","e","H","e","a","d","e","r","(","T","e","x","t",")",":"," ","v","i","m">>,
   Vim |->
     <<"/","/"," ","v","i","m",":"," ","x">>]

(***************************************************************************)
(* The bounds of the model and the inputs.  A run parses units one after   *)
(* another with parse_file; every unit has at least one line and the       *)
(* units of a run have at most MaxLines lines together.  A run draws the   *)
(* lines of its units from one family of lines, and a family fixes the     *)
(* strict option and the configuration file.                               *)
(***************************************************************************)
MaxLines == 4

\* the most spaces a re-indentation adds to the body lines of a block
MaxExtra == 2

\* the file names of the units of a run, in the order they are parsed
UnitNames == << <<"a">>, <<"b">>, <<"c">>, <<"d">>, <<"e">>, <<"f">> >>

\* the configuration file is read with every line prefixed by "// "
Raw(line) == Drop(line, 3)
NoRc == [exists |-> FALSE, lines |-> <<>>]
RcDefine == [exists |-> TRUE, lines |-> <<Raw(L.DefNoteLabel)>>]
RcDirectives ==
  [exists |-> TRUE,
   lines |-> <<Raw(L.IgnoreFiles), Raw(L.PrioritizeFiles), Raw(L.DocsDirectory),
               Raw(L.ProjectName), Raw(L.TargetProfile), Raw(L.GenerateDocs)>>]

Family(strict0, rc0, cat0) == [strict |-> strict0, rc |-> rc0, cat |-> cat0]

Families ==
  [f \in {"indent", "struct", "strict", "names", "alias", "define", "config", "options",
           "subsection"} |->
     CASE f = "subsection" ->
            Family(FALSE, NoRc, {L.Section, L.Subsection, L.SubsectionEmpty})
       [] f = "indent" ->
            Family(FALSE, NoRc, {L.FunctionF, L.Body5, L.Body3, L.Code})
       [] f = "struct" ->
            Family(FALSE, NoRc, {L.LibFile, L.Section, L.Subsection, L.Text, L.FunctionF})
       [] f = "strict" ->
            Family(TRUE, NoRc, {L.LibFile, L.Subsection, L.Bogus, L.Text, L.FunctionF, L.AliasF})
       [] f = "names" ->
            Family(FALSE, NoRc, {L.FunctionF, L.ModuleG, L.FunctionH, L.AliasF, L.AliasesGH})
       [] f = "alias" ->
            Family(FALSE, NoRc,
                   {L.FunctionF, L.AliasesGH, L.DefAliasesText, L.DefFunction, L.Code})
       [] f = "define" ->
            Family(FALSE, RcDefine,
                   {L.DefNoteItemOnly, L.DefNone, L.DefTwo, L.Note, L.FunctionF})
       [] f = "config" ->
            Family(FALSE, RcDirectives,
                   {L.DefNoteLabel, L.IgnoreFiles, L.PrioritizeFiles, L.DocsDirectory, L.Note})
       [] f = "options" ->
            Family(FALSE, NoRc,
                   {L.ProjectName, L.TargetProfile, L.GenerateDocs, L.Body3, L.Bogus})]

\* the sequences over S of length 1..n
BSeq(S, n) == UNION {[1..k -> S] : k \in 1..n}

(***************************************************************************)
(* The lines the header pattern is tried on: every concatenation of a      *)
(* start, a first word, a second word, a metadata part, a colon or none,   *)
(* and a rest of the line.                                                 *)
(***************************************************************************)
\* the parts, by name:
\*   Starts: "//" and one space, none, two
\*   FirstWords: a first word, capitalised or not
\*   SecondWords: no second word, or one after one or two spaces, or two more words
\*   MetaParts: no metadata, or a string in parentheses, closed or not
\*   ColonParts: the colon, or none
\*   RestParts: the rest of the line: nothing, or text after a space or none, with or without the end of line
HeaderParts ==
  [Starts |->
     {<<"/","/"," ">>,
      <<"/","/">>,
      <<"/","/"," "," ">>},
   FirstWords |->
     {<<"A">>,
      <<"a">>,
      <<"A","1">>,
      <<"A","&","-","_","b">>,
      <<"1","A">>},
   SecondWords |->
     {<<>>,
      <<" ","B">>,
      <<" "," ","B">>,
      <<" ","b">>,
      <<" ","B"," ","C">>},
   MetaParts |->
     {<<>>,
      <<"(","m",")">>,
      <<"(",")">>,
      <<"(","m">>,
      <<"(","a",")","b",")">>},
   ColonParts |->
     {<<":">>,
      <<>>},
   RestParts |->
     {<<>>,
      <<" ">>,
      <<" ","s">>,
      <<"s">>,
      <<" "," ","s"," ","t"," ">>,
      <<" ","s","\n">>}]

HeaderLines ==
  {a \o b \o c \o d \o e \o f :
     a \in HeaderParts.Starts, b \in HeaderParts.FirstWords,
     c \in HeaderParts.SecondWords, d \in HeaderParts.MetaParts,
     e \in HeaderParts.ColonParts, f \in HeaderParts.RestParts}

\* the unit of the scenario: a file with one documented function, declared twice
Scenario ==
  <<L.LibFile, L.FunctionBar, L.Description, L.Dashes, L.DoesAThing, L.Code,
    L.FunctionBar>>

\* a family of single units: the strict option, the configuration file and
\* the units a run can parse
UnitFamily(strict0, rc0, units0) == [strict |-> strict0, rc |-> rc0, units |-> units0]

UnitFamilies ==
  [f \in {"table", "leaf", "scenario", "body", "header", "index", "scope", "registry",
           "strictreg", "modeline", "callback", "shape", "strictgate"} |->
     CASE f = "strictgate" ->
            UnitFamily(TRUE, NoRc,
                       BSeq({L.LibFile, L.Section, L.FunctionF, L.Body5, L.Body2},
                            MaxLines))
       [] f = "shape" ->
            UnitFamily(FALSE, NoRc,
                       BSeq({L.LibFile, L.Section, L.Subsection, L.FunctionF, L.ModuleG},
                            MaxLines))
       [] f = "callback" ->
            UnitFamily(FALSE, NoRc,
                       BSeq({L.FunctionF, L.ModuleG, L.Section, L.Status, L.AliasesGH,
                             L.Code}, MaxLines))
       [] f = "modeline" ->
            UnitFamily(FALSE, NoRc, BSeq({L.DefVimText, L.Vim, L.Section}, MaxLines))
       [] f = "scope" ->
            UnitFamily(FALSE, NoRc,
                       BSeq({L.FunctionF, L.Section, L.Code, L.Text, L.Example, L.Bogus,
                             L.AliasF}, MaxLines))
       [] f = "registry" ->
            UnitFamily(FALSE, NoRc,
                       BSeq({L.DefNoteItemOnly, L.DefNoteNumList, L.DefSectionItemOnly,
                             L.DefDemoExample, L.Demo, L.Note, L.Section, L.FunctionF},
                            MaxLines))
       [] f = "strictreg" ->
            UnitFamily(TRUE, NoRc,
                       BSeq({L.DefNoteLabel, L.Note, L.LibFile, L.Code}, MaxLines))
       [] f = "index" ->
            UnitFamily(FALSE, NoRc,
                       BSeq({L.FunctionLowerA, L.FunctionUpperB, L.ModuleAb, L.AliasesCaB},
                            MaxLines))
       [] f = "header" -> UnitFamily(FALSE, NoRc, {<<line>> : line \in HeaderLines})
       [] f = "body" ->
            UnitFamily(FALSE, NoRc,
                       {<<L.Text>> \o b :
                          b \in BSeq({L.Body3, L.Body5, L.Body2, L.Body1, L.BodyTab,
                                      L.BodyBlank, L.BodyTrail, L.Code, L.Bare},
                                     MaxLines - 1)})
       [] f = "scenario" -> UnitFamily(FALSE, NoRc, {Scenario})
       [] f = "leaf" ->
            UnitFamily(FALSE, NoRc,
                       BSeq({L.LibFile, L.FunctionF, L.Code, L.Topics, L.SeeAlso,
                             L.Example, L.Figure, L.DefTopicsText}, MaxLines))
       [] f = "table" ->
            UnitFamily(FALSE, NoRc,
                       BSeq({L.DefMyTable, L.DefNumTable, L.DefTableNoHeaders,
                             L.DefTableFlag, L.DefTableSets, L.MyTable, L.Body3,
                             L.Body3c}, MaxLines))]

(***************************************************************************)
(* The state: the fields of the DocsGenParser object, the heap of blocks   *)
(* (nodes), the module-level errorlog, the configuration file (rc), and    *)
(* the call of parse_file in progress: its lines, the line index of the    *)
(* loop of parse_lines, its source name, its position (pc) and the name of *)
(* the exception that escaped it (err).  op and blk record the last step   *)
(* taken; fam, fed and nunits bound the inputs; indexed_names is the list  *)
(* of the names the last get_indexed_names yielded.                        *)
(***************************************************************************)
VARIABLES strict, file_blocks, curr_file_block, curr_section, curr_subsection,
          curr_item, curr_parent, ignored_file_pats, ignored_files, priority_files,
          items_by_name, header_defs, opts, nodes, errorlog,
          rc, lines, line_num, src_file, pc, err, op, blk, fam, fed, nunits,
          indexed_names

vars == <<strict, file_blocks, curr_file_block, curr_section, curr_subsection,
          curr_item, curr_parent, ignored_file_pats, ignored_files, priority_files,
          items_by_name, header_defs, opts, nodes, errorlog,
          rc, lines, line_num, src_file, pc, err, op, blk, fam, fed, nunits,
          indexed_names>>

\* the parser as the record the operators work on
Self ==
  [strict |-> strict, file_blocks |-> file_blocks, curr_file_block |-> curr_file_block,
   curr_section |-> curr_section, curr_subsection |-> curr_subsection,
   curr_item |-> curr_item, curr_parent |-> curr_parent,
   ignored_file_pats |-> ignored_file_pats, ignored_files |-> ignored_files,
   priority_files |-> priority_files, items_by_name |-> items_by_name,
   header_defs |-> header_defs, opts |-> opts, nodes |-> nodes, errorlog |-> errorlog]

Becomes(q) ==
  /\ strict' = q.strict
  /\ file_blocks' = q.file_blocks
  /\ curr_file_block' = q.curr_file_block
  /\ curr_section' = q.curr_section
  /\ curr_subsection' = q.curr_subsection
  /\ curr_item' = q.curr_item
  /\ curr_parent' = q.curr_parent
  /\ ignored_file_pats' = q.ignored_file_pats
  /\ ignored_files' = q.ignored_files
  /\ priority_files' = q.priority_files
  /\ items_by_name' = q.items_by_name
  /\ header_defs' = q.header_defs
  /\ opts' = q.opts
  /\ nodes' = q.nodes
  /\ errorlog' = q.errorlog

\* the state after DocsGenParser(opts) for the run of family f
Start(f, strict0, rc0) ==
  \E n \in {New(strict0, rc0)} :
      /\ n.err = ""
      /\ fam = f
      /\ rc = rc0
      /\ strict = n.p.strict
      /\ file_blocks = n.p.file_blocks
      /\ curr_file_block = n.p.curr_file_block
      /\ curr_section = n.p.curr_section
      /\ curr_subsection = n.p.curr_subsection
      /\ curr_item = n.p.curr_item
      /\ curr_parent = n.p.curr_parent
      /\ ignored_file_pats = n.p.ignored_file_pats
      /\ ignored_files = n.p.ignored_files
      /\ priority_files = n.p.priority_files
      /\ items_by_name = n.p.items_by_name
      /\ header_defs = n.p.header_defs
      /\ opts = n.p.opts
      /\ nodes = n.p.nodes
      /\ errorlog = n.p.errorlog
      /\ lines = <<>>
      /\ line_num = 0
      /\ src_file = <<>>
      /\ pc = "idle"
      /\ err = ""
      /\ op = "new"
      /\ blk = NoBlock
      /\ fed = 0
      /\ nunits = 0
      /\ indexed_names = <<>>

\* the state after DocsGenParser(opts), for each family
Init == \E f \in DOMAIN Families : Start(f, Families[f].strict, Families[f].rc)

(***************************************************************************)
(* parse_file(filename), up to the first test of the loop of parse_lines.  *)
(* flines is the content of the file, drawn from the family of the run; r  *)
(* is the outcome of _reset_header_defs.                                   *)
(***************************************************************************)
parse_file(filename, flines) ==
  /\ fed' = fed + Len(flines)
  /\ IF filename \in ignored_files
     THEN /\ op' = "ignored"
          /\ UNCHANGED <<strict, file_blocks, curr_file_block, curr_section,
                         curr_subsection, curr_item, curr_parent,
                         ignored_file_pats, ignored_files, priority_files,
                         items_by_name, header_defs, opts, nodes, errorlog,
                         lines, line_num, src_file, pc, err>>
     ELSE \E r \in {_reset_header_defs(
                      [Self EXCEPT !.curr_file_block = None, !.curr_section = None],
                      rc)} :
            /\ op' = "parse_file"
            /\ Becomes(r.p)
            /\ lines' = flines
            /\ line_num' = 0
            /\ src_file' = filename
            /\ pc' = IF r.err # "" THEN "raised" ELSE "parsing"
            /\ err' = r.err
  /\ nunits' = nunits + 1
  /\ blk' = NoBlock
  /\ UNCHANGED <<rc, fam, indexed_names>>

\* a call of parse_file on the next unit of the run
ParseFile ==
  /\ pc = "idle"
  /\ nunits < Len(UnitNames)
  /\ \E flines \in BSeq(Families[fam].cat, MaxLines - fed) :
       parse_file(UnitNames[nunits + 1], flines)

(***************************************************************************)
(* One turn of the loop of parse_lines: a call of _parse_block, and the    *)
(* return of parse_lines and parse_file when the lines are exhausted.  An  *)
(* exception that escapes _parse_block escapes parse_file too.             *)
(***************************************************************************)
ParseBlock ==
  /\ pc = "parsing"
  /\ line_num < Len(lines)
  /\ \E r \in {_parse_block(Self, lines, line_num, src_file)} :
       /\ Becomes(r.p)
       /\ line_num' = r.line_num
       /\ blk' = r.blk
       /\ pc' = IF r.err # "" THEN "raised"
                ELSE IF r.line_num < Len(lines) THEN "parsing" ELSE "idle"
       /\ err' = r.err
  /\ op' = "block"
  /\ UNCHANGED <<rc, lines, src_file, fam, fed, nunits, indexed_names>>

Next == ParseFile \/ ParseBlock

Spec == Init /\ [][Next]_vars

(***************************************************************************)
(* The runs of one unit: a new parser and one call of parse_file on a unit *)
(* drawn from the units of the family.                                     *)
(***************************************************************************)
InitUnit ==
  \E f \in DOMAIN UnitFamilies : Start(f, UnitFamilies[f].strict, UnitFamilies[f].rc)

ParseUnit ==
  /\ pc = "idle"
  /\ nunits = 0
  /\ \E flines \in UnitFamilies[fam].units : parse_file(UnitNames[1], flines)

\* list(get_indexed_names()), once the unit is parsed
GetIndexedNames ==
  /\ pc = "idle"
  /\ nunits = 1
  /\ op # "get_indexed_names"
  /\ indexed_names' = get_indexed_names(Self)
  /\ op' = "get_indexed_names"
  /\ UNCHANGED <<strict, file_blocks, curr_file_block, curr_section, curr_subsection,
                 curr_item, curr_parent, ignored_file_pats, ignored_files,
                 priority_files, items_by_name, header_defs, opts, nodes, errorlog,
                 rc, lines, line_num, src_file, pc, err, blk, fam, fed, nunits>>

NextUnit == ParseUnit \/ ParseBlock \/ GetIndexedNames

SpecUnit == InitUnit /\ [][NextUnit]_vars

(***************************************************************************)
(* The properties.  In an action formula the primed op and blk describe    *)
(* the step itself: op' = "block" for a call of _parse_block, and blk' for *)
(* the block it met.                                                       *)
(***************************************************************************)
\* the step is a call of _parse_block that entered the try statement
Dispatched == op' = "block" /\ blk'.dispatched
\* ... and the try statement caught a DocsGenException
Failed == Dispatched /\ blk'.exc.raised

DirectiveTitles ==
  {s_DefineHeader, s_IgnoreFiles, s_PrioritizeFiles, s_DocsDirectory, s_ProjectName,
   s_TargetProfile, s_GenerateDocs}
StructuralTitles ==
  {s_File, s_LibFile, s_Section, s_Subsection, s_Includes, s_FileSummary, s_FileGroup,
   s_FileFootnotes, s_CommonCode, s_Figure, s_Example, s_Figures, s_Examples,
   s_Topics, s_SeeAlso} \cup ItemTitles

\* the step appends exactly one entry to the ErrorLog
OneEntryAdded ==
  /\ Len(errorlog') = Len(errorlog) + 1
  /\ SubSeq(errorlog', 1, Len(errorlog)) = errorlog
NewEntry == errorlog'[Len(errorlog')]

\* line k (1-based) of the unit is the first header line after the index the
\* call started at, and its title is t
FirstHeaderAt(k, t) ==
  /\ k \in (line_num + 1)..Len(lines)
  /\ _header_pat(lines[k]).matched
  /\ _header_pat(lines[k]).g1 = t
  /\ \A j \in (line_num + 1)..(k - 1) : ~_header_pat(lines[j]).matched

\* C1: for every input line sequence parse_lines returns normally: no
\* DocsGenException escapes it (an under-indented body line is to abort only
\* its block and to be logged as a FAIL).
C1_NoEscape == err # "DocsGenException"

\* what C2 says of a failed dispatch: one FAIL entry with the unit's source id
\* and the 1-based number of the block's header line, and the scan goes on at
\* the first line after the block's body
FailureLogged ==
  Failed =>
    /\ OneEntryAdded
    /\ NewEntry.file = src_file
    /\ NewEntry.level = "FAIL"
    /\ FirstHeaderAt(NewEntry.line, blk'.title)
    /\ err' = ""
    /\ line_num' = blk'.body_end

\* the title is no directive, no structural title and no key of the registry
Unknown(title) ==
  title \notin (DirectiveTitles \cup StructuralTitles \cup DOMAIN header_defs)

ItemsNamed(heap, s) ==
  {i \in 1..Len(heap) : heap[i].cls = "ItemBlock" /\ heap[i].subtitle = s}
\* all the Items of a heap
Items(heap) == {i \in 1..Len(heap) : heap[i].cls = "ItemBlock"}

\* an item header is dispatched whose subtitle is a key of the NameIndex
DupDecl ==
  Dispatched /\ blk'.title \in ItemTitles /\ blk'.subtitle \in DOMAIN items_by_name

\* C3 as stated: a Constant/Function/Module/Function&Module block whose
\* subtitle is already a key of the NameIndex creates no second Item: the tree
\* holds exactly one Item with that subtitle, the NameIndex still maps the
\* name to that first Item, and exactly one FAIL is logged, whose message
\* names the file and line of the first declaration.
C3_Original ==
  [][DupDecl =>
       LET s == blk'.subtitle
       IN  /\ Items(nodes') = Items(nodes)
           /\ Cardinality(ItemsNamed(nodes', s)) = 1
           /\ items_by_name'[s] \in ItemsNamed(nodes', s)
           /\ OneEntryAdded
           /\ NewEntry.level = "FAIL"
           /\ \E i \in ItemsNamed(nodes', s) :
                NewEntry.info = [name |-> s, file |-> nodes[i].origin.file,
                                 line |-> nodes[i].origin.line]]_vars

\* C3 as amended: such a block, when its title is not a key of the registry,
\* creates no Item and leaves the NameIndex as it was; the tree holds at most
\* one Item with that subtitle; exactly one FAIL is logged, and unless the
\* parser is strict and the unit has no File node its message names the file
\* and line of the Item the NameIndex maps the subtitle to (the Item that
\* declared the name or that has it as an alias).
C3_Duplicate ==
  [][(DupDecl /\ blk'.title \notin DOMAIN header_defs) =>
       LET s == blk'.subtitle
           prev == nodes[items_by_name[s]]
       IN  /\ Items(nodes') = Items(nodes)
           /\ Cardinality(ItemsNamed(nodes', s)) <= 1
           /\ items_by_name' = items_by_name
           /\ OneEntryAdded
           /\ NewEntry.level = "FAIL"
           /\ ~(strict /\ blk'.file = None) =>
                NewEntry.info = [name |-> s, file |-> prev.origin.file,
                                 line |-> prev.origin.line]]_vars

\* a second declaration of a name has been rejected with the origin of the
\* first one
C3_Witness ==
  /\ op = "block"
  /\ blk.dispatched
  /\ blk.title \in ItemTitles
  /\ blk.exc.raised
  /\ blk.exc.info.name = blk.subtitle
  /\ blk.exc.info.line >= 1
  /\ Cardinality(ItemsNamed(nodes, blk.subtitle)) = 1

\* C4: the NameIndex is append-only: a name (primary or alias) that maps to an
\* Item maps to that same Item after every later step; an alias that is
\* already in the NameIndex is rejected and the entry is not overwritten.
C4_AppendOnly ==
  [][\A n \in DOMAIN items_by_name :
       n \in DOMAIN items_by_name' /\ items_by_name'[n] = items_by_name[n]]_vars

\* an Alias or Aliases header is dispatched while curr_parent is an Item
AliasStep ==
  /\ Dispatched
  /\ blk'.title \in {s_Alias, s_Aliases}
  /\ blk'.parent # None
  /\ nodes[blk'.parent].cls = "ItemBlock"

\* every comma-separated name of the subtitle, trimmed, is an alias of the
\* Item and resolves to it
AliasesRegistered ==
  LET item == blk'.parent
      names == split(blk'.subtitle, ",")
  IN  \A k \in 1..Len(names) :
        LET a == strip(names[k])
        IN  /\ \E j \in 1..Len(nodes'[item].aliases) : nodes'[item].aliases[j] = a
            /\ a \in DOMAIN items_by_name'
            /\ items_by_name'[a] = item

\* C5 as stated: after an Alias or Aliases block is processed while an Item is
\* the current parent, every alias named in its subtitle is in that Item's
\* aliases and resolves through the NameIndex to that Item.
C5_Original == [][AliasStep => AliasesRegistered]_vars

\* C5 as amended: the same, while the registry maps the title to the built-in
\* alias rule, that is, no DefineHeader has redefined Alias or Aliases since
\* the registry was last reset.
C5_AliasResolves ==
  [][(AliasStep /\ blk'.title \in DOMAIN header_defs
        /\ header_defs[blk'.title].cb = "_alias_block_cb") => AliasesRegistered]_vars

\* an Aliases block with two names has been processed under an Item, and both
\* resolve to the Item
C5_Witness ==
  /\ op = "block"
  /\ blk.title = s_Aliases
  /\ blk.parent # None
  /\ nodes[blk.parent].cls = "ItemBlock"
  /\ Len(nodes[blk.parent].aliases) >= 2
  /\ \A j \in 1..Len(nodes[blk.parent].aliases) :
       /\ nodes[blk.parent].aliases[j] \in DOMAIN items_by_name
       /\ items_by_name[nodes[blk.parent].aliases[j]] = blk.parent

\* C6: parse_file resets the per-unit context (file, section, item and parent
\* pointers) before a unit starts, so a node created while parsing a unit is
\* never attached under a node of an earlier unit.
C6_UnitIsolation ==
  /\ op = "parse_file" =>
       /\ curr_file_block = None
       /\ curr_section = None
       /\ curr_item = None
       /\ curr_parent = None
  /\ \A i \in 1..Len(nodes) :
       nodes[i].parent # None =>
         nodes[nodes[i].parent].origin.file = nodes[i].origin.file

\* C7: every node other than a File root has exactly one parent and appears
\* exactly once in that parent's children.
C7_Tree ==
  \A i \in 1..Len(nodes) :
    nodes[i].cls # "FileBlock" =>
      /\ nodes[i].parent # None
      /\ Cardinality({k \in 1..Len(nodes[nodes[i].parent].children) :
                        nodes[nodes[i].parent].children[k] = i}) = 1


\* the registry, the options and the file lists are what they were
ConfigUnchanged ==
  /\ header_defs' = header_defs
  /\ opts' = opts
  /\ ignored_file_pats' = ignored_file_pats
  /\ ignored_files' = ignored_files
  /\ priority_files' = priority_files

\* a directive is dispatched in a unit that is not the configuration file
DirectiveOutside(titles) ==
  Dispatched /\ blk'.title \in titles /\ src_file # RCFILE

NoteTitle == <<"N","o","t","e">>

\* the registry after a reset: the built-ins, the three default definitions
\* and, for the configuration file that defines Note, its definition
ExpectedBaseline ==
  LET titles == {s_Status, s_Alias, s_Aliases, s_Arguments, s_Text, s_Description, s_Usage}
                  \cup (IF rc = RcDefine THEN {NoteTitle} ELSE {})
  IN  [t \in titles |->
         IF t = s_Status THEN Rule("ItemBlock", "LabelBlock", <<>>, "_status_block_cb")
         ELSE IF t \in {s_Alias, s_Aliases}
              THEN Rule("ItemBlock", "LabelBlock", <<>>, "_alias_block_cb")
         ELSE IF t = s_Arguments THEN Rule("ItemBlock", "TableBlock", ArgumentsHeaders, "None")
         ELSE IF t = s_Text THEN Rule("None", "TextBlock", <<>>, "None")
         ELSE IF t = s_Description THEN Rule("ItemBlock", "TextBlock", <<>>, "None")
         ELSE IF t = s_Usage THEN Rule("ItemBlock", "BulletListBlock", <<>>, "None")
         ELSE Rule("None", "LabelBlock", <<>>, "None")]

KindOptions ==
  {s_NumList, s_BulletList, s_Table, s_Example, s_Figure, s_Label, s_Text, s_Generic}

\* C10: a DefineHeader block registers its title only when exactly one of the
\* kind options is in its option string; with none or more than one of them a
\* FAIL is logged and the registry is unchanged.  ItemOnly makes the
\* registered rule require an Item parent, its absence leaves the rule
\* without a parent constraint.
C10_ExactlyOneKind ==
  [][(Dispatched /\ blk'.title = s_DefineHeader) =>
       LET options == DOMAIN _parse_meta_dict(blk'.meta)
           t == strip(blk'.subtitle)
       IN  /\ Cardinality(KindOptions \cap options) # 1 =>
                /\ Failed
                /\ OneEntryAdded
                /\ header_defs' = header_defs
           /\ ~Failed =>
                /\ t \in DOMAIN header_defs'
                /\ header_defs'[t].parcls =
                     (IF s_ItemOnly \in options THEN "ItemBlock" ELSE "None")]_vars

\* the unit of the Table scenario: the definition of MyTable, a MyTable header
\* and two indented body lines
TableScenario == <<L.DefMyTable, L.MyTable, L.Body3, L.Body3c>>

\* the nodes of class cls
NodesOf(cls) == {i \in 1..Len(nodes') : nodes'[i].cls = cls}

\* C11: a DefineHeader block with the Table option and Headers=h registers its
\* title as a Table rule whose header sets are h split on "||" and each part
\* split on "|", the names trimmed; a DefineHeader block with Table and no
\* Headers value logs a FAIL and leaves the registry unchanged.  When the unit
\* <DefineHeader(Table;Headers=A|B): MyTable, MyTable header, two body lines>
\* has been parsed, the tree holds exactly one Table node, its header sets are
\* <<A, B>> alone and its body is the two rows.
C11_TableHeaders ==
  [][/\ (Dispatched /\ blk'.title = s_DefineHeader
           /\ s_Table \in DOMAIN _parse_meta_dict(blk'.meta)) =>
          LET meta == _parse_meta_dict(blk'.meta)
              t == strip(blk'.subtitle)
          IN  IF s_Headers \in DOMAIN meta /\ ~meta[s_Headers].flag
              THEN /\ ~Failed
                   /\ err' = ""
                   /\ t \in DOMAIN header_defs'
                   /\ header_defs'[t].cls = "TableBlock"
                   /\ header_defs'[t].data = HeaderSets(meta[s_Headers].str)
              ELSE /\ Failed
                   /\ OneEntryAdded
                   /\ header_defs' = header_defs
     /\ (op' = "block" /\ pc' = "idle" /\ lines' = TableScenario) =>
          /\ Cardinality(NodesOf("TableBlock")) = 1
          /\ \A i \in NodesOf("TableBlock") :
               /\ nodes'[i].header_sets = << <<"A", "B">> >>
               /\ nodes'[i].body = << <<"b">>, <<"c">> >>]_vars

\* the step dispatches a File or LibFile header in a unit that has a File node
SecondFile == Dispatched /\ blk'.title \in {s_File, s_LibFile} /\ blk'.file # None

\* C12: while a unit is parsed at most one File node is added to the file
\* list, placeholders included: a step adds at most one and only when the unit
\* has none.  A File or LibFile header met when the unit already has a File
\* node logs one FAIL, creates no node, and leaves the file list, the current
\* File node, the current section and the current parent as they were when
\* the header was met.
C12_OneFilePerUnit ==
  [][/\ op' = "block" =>
          /\ Len(file_blocks') <= Len(file_blocks) + 1
          /\ Len(file_blocks') > Len(file_blocks) => curr_file_block = None
          /\ \A k \in 1..Len(UnitNames) :
               Cardinality({i \in 1..Len(file_blocks') :
                              nodes'[file_blocks'[i]].origin.file = UnitNames[k]}) <= 1
     /\ SecondFile =>
          /\ Failed
          /\ OneEntryAdded
          /\ nodes' = nodes
          /\ file_blocks' = file_blocks
          /\ curr_file_block' = blk'.file
          /\ curr_section' = blk'.section
          /\ curr_parent' = blk'.parent]_vars

\* a LibFile header was refused in a second unit whose File node is a
\* placeholder, while a section was open
C12_Witness ==
  /\ op = "block"
  /\ blk.dispatched
  /\ blk.title = s_LibFile
  /\ blk.exc.raised
  /\ nunits = 2
  /\ blk.file # None
  /\ nodes[blk.file].subtitle = src_file
  /\ curr_section # None
  /\ Len(file_blocks) = 2

\* the nodes of class cls created while parsing the unit named u
NodesIn(heap, cls, u) ==
  {i \in 1..Len(heap) : heap[i].cls = cls /\ heap[i].origin.file = u}

\* the nodes the step created
Created == (Len(nodes) + 1)..Len(nodes')

\* C13: a Subsection header met when no Section was opened earlier in the same
\* unit, whatever the previous units left open, logs one FAIL and creates no
\* node; so does a Subsection header with an empty subtitle.  Every Subsection
\* node a step creates has the open Section of its unit as its parent.
C13_Subsection ==
  [][/\ (Dispatched /\ blk'.title = s_Subsection
           /\ (NodesIn(nodes, "SectionBlock", src_file) = {} \/ blk'.subtitle = <<>>)) =>
          /\ Failed
          /\ OneEntryAdded
          /\ nodes' = nodes
     /\ \A i \in Created :
          nodes'[i].cls = "SubsectionBlock" =>
            /\ nodes'[i].parent = curr_section'
            /\ nodes'[i].parent \in NodesIn(nodes, "SectionBlock", src_file)
            /\ i \in {nodes'[nodes'[i].parent].children[j] :
                        j \in 1..Len(nodes'[nodes'[i].parent].children)}]_vars

\* a Subsection header was refused in a second unit, with no Section there,
\* while the first unit holds a Section and a Subsection under it
C13_Witness ==
  /\ op = "block"
  /\ blk.dispatched
  /\ blk.title = s_Subsection
  /\ blk.subtitle # <<>>
  /\ blk.exc.raised
  /\ nunits = 2
  /\ NodesIn(nodes, "SectionBlock", src_file) = {}
  /\ NodesIn(nodes, "SectionBlock", UnitNames[1]) # {}
  /\ NodesIn(nodes, "SubsectionBlock", UnitNames[1]) # {}

\* node i of the heap is in the children of its parent
Linked(heap, i) ==
  /\ heap[i].parent # None
  /\ \E j \in 1..Len(heap[heap[i].parent].children) : heap[heap[i].parent].children[j] = i

\* the step dispatches a Section or item header in a unit without a File node
NoFileHeader ==
  Dispatched /\ blk'.title \in ({s_Section} \cup ItemTitles) /\ blk'.file = None

\* the step did not fail for lack of a File node: it created a File node for
\* the unit, the last of the file list; under it the declared Section, or for
\* an item header a Section without subtitle; and under that Section the Item,
\* when the declaration of the Item did not fail
AutoCreated ==
  /\ ~(Failed /\ blk'.exc.message =
                   "Must declare File or LibFile block before declaring block:")
  /\ file_blocks' = Append(file_blocks, Len(nodes) + 1)
  /\ curr_file_block' = Len(nodes) + 1
  /\ Len(nodes') >= Len(nodes) + 2
  /\ nodes'[Len(nodes) + 1].cls = "FileBlock"
  /\ nodes'[Len(nodes) + 1].origin.file = src_file
  /\ nodes'[Len(nodes) + 1].parent = None
  /\ curr_section' = Len(nodes) + 2
  /\ nodes'[Len(nodes) + 2].cls = "SectionBlock"
  /\ nodes'[Len(nodes) + 2].parent = Len(nodes) + 1
  /\ Linked(nodes', Len(nodes) + 2)
  /\ nodes'[Len(nodes) + 2].subtitle =
       (IF blk'.title = s_Section THEN blk'.subtitle ELSE <<>>)
  /\ (blk'.title \in ItemTitles /\ ~Failed) =>
       /\ Len(nodes') = Len(nodes) + 3
       /\ nodes'[Len(nodes) + 3].cls = "ItemBlock"
       /\ nodes'[Len(nodes) + 3].subtitle = blk'.subtitle
       /\ nodes'[Len(nodes) + 3].parent = Len(nodes) + 2
       /\ Linked(nodes', Len(nodes) + 3)

\* C14 as stated: every Section or item header met in a unit without a File
\* node creates the placeholder File node, the anonymous Section for an item,
\* and links the new Section or Item beneath them.
C14_Original == [][NoFileHeader => AutoCreated]_vars

\* C14: a Section header met by a parser that is not strict, or an item header
\* met by such a parser while its title is not a key of the registry, in a
\* unit without a File node, creates a placeholder File node that is added to
\* the file list, the anonymous Section for an item, and links the new Section
\* or the new Item (when its name is not a duplicate) beneath them.
C14_Placeholders ==
  [][(NoFileHeader /\ ~strict
        /\ (blk'.title = s_Section \/ blk'.title \notin DOMAIN header_defs)) =>
       AutoCreated]_vars

\* an item header in a second unit without a File node got a placeholder File
\* node, an anonymous Section and its Item
C14_Witness ==
  /\ op = "block"
  /\ blk.dispatched
  /\ blk.title \in ItemTitles
  /\ blk.file = None
  /\ ~blk.exc.raised
  /\ nunits = 2
  /\ Len(file_blocks) = 2
  /\ curr_section # None
  /\ nodes[curr_section].subtitle = <<>>
  /\ nodes[Len(nodes)].cls = "ItemBlock"
  /\ nodes[Len(nodes)].parent = curr_section

\* the step dispatches a header with a title of T in a unit that has a File
\* node, while no Item is open
NoItemHeader(T) ==
  Dispatched /\ blk'.title \in T /\ blk'.file # None /\ blk'.item = None

\* the block is dropped: no node, no entry of the ErrorLog
Dropped == nodes' = nodes /\ errorlog' = errorlog /\ ~Failed

\* C15 as stated: with a File node and no Item open, a Topics, See Also,
\* Example or Figure header creates no node and logs nothing.
C15_Original ==
  [][NoItemHeader({s_Topics, s_SeeAlso, s_Example, s_Figure}) => Dropped]_vars

\* C15: with a File node and no Item open, an Example header, and a Topics or
\* See Also header whose title is not a key of the registry, creates no node
\* and logs nothing; a Figure header logs nothing and creates one Figure node
\* under the current parent.
C15_SilentDrop ==
  [][/\ NoItemHeader({s_Example}) => Dropped
     /\ (NoItemHeader({s_Topics, s_SeeAlso}) /\ blk'.title \notin DOMAIN header_defs) =>
          Dropped
     /\ NoItemHeader({s_Figure}) =>
          /\ errorlog' = errorlog
          /\ ~Failed
          /\ Len(nodes') = Len(nodes) + 1
          /\ nodes'[Len(nodes')].cls = "FigureBlock"
          /\ nodes'[Len(nodes')].parent = blk'.parent
          /\ blk'.parent # None]_vars

\* an Example header was dropped in a unit that has a File node and has not
\* declared an Item yet
C15_Witness ==
  /\ op = "block"
  /\ blk.dispatched
  /\ blk.title = s_Example
  /\ blk.file # None
  /\ blk.item = None
  /\ ~blk.exc.raised
  /\ Items(nodes) = {}
  /\ errorlog = <<>>
  /\ Len(nodes) = 1

\* the scenario unit has been parsed to its end
ScenarioParsed == op = "block" /\ pc = "idle" /\ lines = Scenario

\* the nodes of class cls of the heap
Of(cls) == {i \in 1..Len(nodes) : nodes[i].cls = cls}

\* the tree of the scenario as far as the File node, the Section and the Item
\* go: one File node foo.scad, one Section, one Item bar(); one FAIL entry,
\* for the header of line 7; no Item open when that header was dispatched
ScenarioTree ==
  /\ Len(file_blocks) = 1
  /\ Of("FileBlock") = {file_blocks[1]}
  /\ nodes[file_blocks[1]].subtitle = <<"f","o","o",".","s","c","a","d">>
  /\ Cardinality(Of("SectionBlock")) = 1
  /\ Cardinality(Of("ItemBlock")) = 1
  /\ \A i \in Of("ItemBlock") :
       /\ nodes[i].subtitle = <<"b","a","r","(",")">>
       /\ nodes[i].parent \in Of("SectionBlock")
       /\ DOMAIN items_by_name = {nodes[i].subtitle}
       /\ items_by_name[nodes[i].subtitle] = i
  /\ Len(errorlog) = 1
  /\ errorlog[1].level = "FAIL"
  /\ errorlog[1].line = 7
  /\ errorlog[1].block = s_Function
  /\ blk.hdr_line_num = 6
  /\ blk.item = None
  /\ curr_item = None

\* C16 as stated: the scenario yields one File node foo.scad, one Section, one
\* Item bar() with a Text child whose body is <<Does a thing.>>, and exactly
\* one FAIL entry, for the second declaration of bar(); the Item is not open
\* when the second header is dispatched.
C16_Original ==
  ScenarioParsed =>
    /\ ScenarioTree
    /\ \A i \in Of("ItemBlock") :
         \E t \in Of("TextBlock") :
           /\ nodes[t].parent = i
           /\ nodes[t].body = << <<"D","o","e","s"," ","a"," ","t","h","i","n","g",".">> >>

\* C16: the scenario yields one File node foo.scad, one Section, one Item bar()
\* and exactly one FAIL entry, for the second declaration of bar(); the Item
\* is not open when the second header is dispatched.  The three indented
\* lines are the body of the Function block: the Item has the body
\* <<Description, -----------, Does a thing.>> and no child, and the tree
\* holds no other node.
C16_Scenario ==
  ScenarioParsed =>
    /\ ScenarioTree
    /\ Len(nodes) = 3
    /\ \A i \in Of("ItemBlock") :
         /\ nodes[i].children = <<>>
         /\ nodes[i].body =
              << <<"D","e","s","c","r","i","p","t","i","o","n">>,
                 <<"-","-","-","-","-","-","-","-","-","-","-">>,
                 <<"D","o","e","s"," ","a"," ","t","h","i","n","g",".">> >>

\* the scenario unit was parsed to its end without an exception
C16_Witness == ScenarioParsed /\ err = "" /\ line_num = 7 /\ Len(nodes) = 3

\* the lines ls with k spaces added after the "//" of the lines a..b
Reindent(ls, a, b, k) ==
  [i \in 1..Len(ls) |->
     IF i \in a..b THEN <<"/", "/">> \o [j \in 1..k |-> " "] \o Drop(ls[i], 2) ELSE ls[i]]

\* the step is a call of _parse_block that met a header
Met == op' = "block" /\ blk'.found

\* C17: for the block a step met, the body loop run again on the lines with k
\* more spaces after the "//" of every line of the body, for each k up to
\* MaxExtra, gives the same body lines and the same index of the first line
\* not consumed (and ends the same way).
C17_Reindent ==
  [][Met =>
       \A k \in 0..MaxExtra :
         \E r \in {BodyLoop(Reindent(lines', blk'.hdr_line_num + 2, blk'.body_end, k),
                            blk'.hdr_line_num + 1, TRUE, 2, <<>>)} :
           /\ r.body = blk'.body
           /\ r.line_num = blk'.body_end
           /\ r.raised = ~blk'.dispatched]_vars

\* a block with a body of two lines or more, the first indented by five
\* spaces, followed by a line that is not of the body
C17_Witness ==
  /\ op = "block"
  /\ blk.found
  /\ blk.dispatched
  /\ Len(blk.body) >= 2
  /\ lines[blk.hdr_line_num + 2] = L.Body5
  /\ blk.body_end < Len(lines)

\* the count of leading whitespace characters of s
LeadingWhitespace(s) ==
  CHOOSE n \in 0..Len(s) :
    /\ \A i \in 1..n : s[i] \in Whitespace
    /\ n < Len(s) => s[n + 1] \notin Whitespace

\* s without its trailing whitespace
TrimRight(s) ==
  SubSeq(s, 1, CHOOSE n \in 0..Len(s) :
                 /\ \A i \in (n + 1)..Len(s) : s[i] \in Whitespace
                 /\ n > 0 => s[n] \notin Whitespace)

\* the line starts with "//"
Comment(line) == Len(line) >= 2 /\ line[1] = "/" /\ line[2] = "/"

\* the line starts with "//" and n spaces
Indented(line, n) ==
  Comment(line) /\ Len(line) >= 2 + n /\ \A i \in 3..(2 + n) : line[i] = " "

\* the line is of the run of indent width: the first line starts with "//"
\* and two spaces, a later line with "//" and width spaces
InRun(line, first, width) == Indented(line, IF first THEN 2 ELSE width)

\* the body from, to of the lines ls: from is the 1-based index of the first
\* line, to of the last; width is the indent width
BodyOf(ls, from, to, width) ==
  [j \in 1..(to - from + 1) |->
     TrimRight(SubSeq(ls[from + j - 1], 3 + width, Len(ls[from + j - 1])))]

\* C20 as stated: the lines consumed after a header are the longest run of
\* following lines that start with "//" and have at least the leading
\* whitespace of the first of them, whatever its width; each loses that many
\* characters after "//" and its trailing whitespace; the line after the run
\* is not consumed.
C20_Original ==
  [][Met =>
       \E from \in {blk'.hdr_line_num + 2} :
         \E width \in {IF from <= Len(lines') /\ Comment(lines'[from])
                       THEN LeadingWhitespace(Drop(lines'[from], 2)) ELSE 0} :
           \E to \in {CHOOSE e \in (from - 1)..Len(lines') :
                        /\ \A i \in from..e :
                             /\ Comment(lines'[i])
                             /\ LeadingWhitespace(Drop(lines'[i], 2)) >= width
                        /\ e < Len(lines') =>
                             ~(/\ Comment(lines'[e + 1])
                               /\ LeadingWhitespace(Drop(lines'[e + 1], 2)) >= width)} :
             /\ blk'.body_end = to
             /\ blk'.body = BodyOf(lines', from, to, width)]_vars

\* C20: the lines consumed after a header are the longest run of following
\* lines of which the first starts with "//" and two spaces and the others
\* with "//" and as many spaces as the first has leading whitespace after
\* "//" (the indent width); each loses the indent width after "//" and its
\* trailing whitespace; the line after the run, and so any line that does not
\* start with "//", is not consumed.  The run empty, the body is empty.
C20_BodyRun ==
  [][Met =>
       \E from \in {blk'.hdr_line_num + 2} :
         \E width \in {IF from <= Len(lines') /\ Indented(lines'[from], 2)
                       THEN LeadingWhitespace(Drop(lines'[from], 2)) ELSE 2} :
           \E to \in {CHOOSE e \in (from - 1)..Len(lines') :
                        /\ \A i \in from..e : InRun(lines'[i], i = from, width)
                        /\ e < Len(lines') => ~InRun(lines'[e + 1], e + 1 = from, width)} :
             /\ blk'.body_end = to
             /\ blk'.body = BodyOf(lines', from, to, width)]_vars

\* a block whose body of two lines or more, the first indented by more than
\* two spaces, is ended by a line that does not start with "//"
C20_Witness ==
  /\ op = "block"
  /\ blk.found
  /\ blk.dispatched
  /\ Len(blk.body) >= 2
  /\ lines[blk.hdr_line_num + 2] \in {L.Body5, L.BodyTrail}
  /\ blk.body_end < Len(lines)
  /\ lines[blk.body_end + 1] = L.Code

\* the line without the end of line that ends it
Chomp(line) ==
  IF line # <<>> /\ line[Len(line)] = "\n" THEN SubSeq(line, 1, Len(line) - 1) ELSE line

\* a word of a title: a capital letter, then letters, digits, "_", "&", "-"
IsWord(s) == s # <<>> /\ s[1] \in Upper /\ \A i \in 2..Len(s) : s[i] \in WordChar

\* a title: one word, or two words with a space between them
IsTitle(s) ==
  \/ IsWord(s)
  \/ \E k \in 2..(Len(s) - 1) :
       s[k] = " " /\ IsWord(SubSeq(s, 1, k - 1)) /\ IsWord(SubSeq(s, k + 1, Len(s)))

\* the metadata part: nothing, or a string without ")" in parentheses
IsMeta(s) ==
  \/ s = <<>>
  \/ /\ Len(s) >= 2
     /\ s[1] = "("
     /\ s[Len(s)] = ")"
     /\ \A i \in 2..(Len(s) - 1) : s[i] # ")"

\* s without its leading and trailing whitespace
Trim(s) == TrimRight(Drop(s, LeadingWhitespace(s)))

\* the ways to read line l as a header: <<a, b>> where the title is l[4..a],
\* the metadata part l[a+1..b-1] and the colon l[b]; spaced tells that a
\* subtitle must be separated from the colon by a space
Readings(l, spaced) ==
  {ab \in (4..Len(l)) \X (5..Len(l)) :
     /\ ab[1] < ab[2]
     /\ l[ab[2]] = ":"
     /\ SubSeq(l, 1, 3) = <<"/", "/", " ">>
     /\ \A i \in 1..Len(l) : l[i] # "\n"
     /\ IsTitle(SubSeq(l, 4, ab[1]))
     /\ IsMeta(SubSeq(l, ab[1] + 1, ab[2] - 1))
     /\ (spaced /\ ab[2] < Len(l)) => l[ab[2] + 1] = " "}

\* the block the step met is the first line, from the line the call started
\* at, that reads as a header, read as <<title, metadata, subtitle>>; the
\* step met no block exactly when no line reads as a header
FirstHeaderRead(spaced) ==
  op' = "block" =>
    \E start \in {IF blk'.found THEN blk'.hdr_line_num ELSE Len(lines')} :
      /\ \A i \in (line_num + 1)..start : Readings(Chomp(lines'[i]), spaced) = {}
      /\ blk'.found =>
           \E l \in {Chomp(lines'[start + 1])} :
             /\ Cardinality(Readings(l, spaced)) = 1
             /\ \A ab \in Readings(l, spaced) :
                  /\ blk'.title = SubSeq(l, 4, ab[1])
                  /\ blk'.meta = SubSeq(l, ab[1] + 2, ab[2] - 2)
                  /\ blk'.subtitle = Trim(SubSeq(l, ab[2] + 1, Len(l)))

\* C18 as stated: a line is a header exactly when it is "// ", a title of one
\* or two capitalised words, an optional metadata string in parentheses, a
\* colon and whatever follows the colon; the result is the title, the
\* metadata without its parentheses and the trimmed subtitle, and it depends
\* on the line alone.
C18_Original == [][FirstHeaderRead(FALSE)]_vars

\* C18: a line is a header exactly when it is "// ", a title of one or two
\* capitalised words, an optional metadata string in parentheses (without
\* ")" inside), a colon and then nothing or a space and the rest of the line;
\* the result is the title, the metadata without its parentheses and the
\* trimmed subtitle, and it depends on the line alone.
C18_HeaderGrammar == [][FirstHeaderRead(TRUE)]_vars

\* a header of two words with metadata and a padded subtitle was met
C18_Witness ==
  /\ op = "block"
  /\ blk.found
  /\ blk.title = <<"A", " ", "B">>
  /\ blk.meta = <<"m">>
  /\ blk.subtitle = <<"s", " ", "t">>

\* s with its capital letters made small
LowerCased(s) ==
  [i \in 1..Len(s) |->
     IF s[i] \in Upper THEN LowerLetters[CHOOSE k \in 1..26 : UpperLetters[k] = s[i]]
     ELSE s[i]]

\* C19: the list get_indexed_names yields holds every key of the NameIndex,
\* primary names and aliases, exactly once, and is in alphabetical order
\* whatever the case: of two names yielded one after the other the first,
\* lower-cased, is not greater than the second, lower-cased.
C19_IndexedNames ==
  op = "get_indexed_names" =>
    /\ Len(indexed_names) = Cardinality(DOMAIN items_by_name)
    /\ {indexed_names[i] : i \in 1..Len(indexed_names)} = DOMAIN items_by_name
    /\ \A i \in 1..(Len(indexed_names) - 1) :
         ~StrLess(LowerCased(indexed_names[i + 1]), LowerCased(indexed_names[i]))

\* line k (1-based) of the unit does not start with the comment prefix
NonComment(k) == ~StartsWith(lines[k], <<"/", "/">>)

\* the lines the step skipped before the header it met (all the lines left,
\* when it met none), and the lines it skipped after the body of the block
SkippedBefore == (line_num + 1)..(IF blk'.found THEN blk'.hdr_line_num ELSE Len(lines))
SkippedAfter == (blk'.body_end + 1)..line_num'

\* the Item open when the dispatch of the step ended: the Item the step
\* declared, or else the Item open when the header was dispatched
OpenAfter ==
  IF Len(nodes') > Len(nodes) /\ nodes'[Len(nodes')].cls = "ItemBlock"
  THEN Len(nodes')
  ELSE blk'.item

\* C21: an Item's open scope ends at the first line that does not start with
\* the comment prefix.  When a call of _parse_block that returns has skipped
\* such a line before the header it met, the Item that was open is closed when
\* the header is dispatched and the parent then is that Item's parent (and so
\* they are when the call returns, if it met no header); when a block is
\* dispatched without failure and is followed by such a line or by the end of
\* the input, no Item is open when the call returns and the parent is the
\* parent of the Item that was open; and no node is ever attached to an Item
\* when such a line lies between the header of the Item and its own header.
C21_ItemScope ==
  [][(op' = "block" /\ err' = "") =>
       /\ (curr_item # None /\ \E k \in SkippedBefore : NonComment(k)) =>
            /\ blk'.found => (blk'.item = None /\ blk'.parent = nodes[curr_item].parent)
            /\ curr_item' # curr_item
            /\ \A i \in Created : nodes'[i].parent # curr_item
       /\ (curr_item # None /\ ~blk'.found) =>
            /\ curr_item' = None
            /\ curr_parent' = nodes[curr_item].parent
       /\ (Dispatched /\ ~Failed
             /\ (blk'.body_end >= Len(lines) \/ \E k \in SkippedAfter : NonComment(k))) =>
            /\ curr_item' = None
            /\ OpenAfter # None => curr_parent' = nodes'[OpenAfter].parent
       /\ \A i \in Created :
            IsItem(Self', nodes'[i].parent) =>
              /\ nodes'[nodes'[i].parent].origin.file = src_file
              /\ \A k \in nodes'[nodes'[i].parent].origin.line..nodes'[i].origin.line :
                   ~NonComment(k)]_vars

\* a Text block that follows a line of code after the comment of an Item has
\* been attached to the Section of the Item, and no Item is open
C21_Witness ==
  /\ op = "block"
  /\ pc = "idle"
  /\ curr_item = None
  /\ \E j \in Items(nodes) : \E i \in 1..Len(nodes) :
       /\ nodes[i].cls = "TextBlock"
       /\ nodes[i].origin.line > nodes[j].origin.line
       /\ \E k \in nodes[j].origin.line..nodes[i].origin.line : NonComment(k)
       /\ nodes[i].parent = nodes[j].parent
       /\ curr_parent = nodes[j].parent

\* the titles whose dispatch ends the time a Section is the current parent
ContainerTitles == {s_Section, s_Subsection, s_File, s_LibFile} \cup ItemTitles

\* C22: after a Section block has been processed the new Section is the
\* current parent, and it stays the current parent until the next Section,
\* Subsection, File or item header is dispatched: a call of _parse_block that
\* dispatches none of these leaves the current section as the current parent
\* and attaches every node it creates to that Section.
C22_SectionParent ==
  [][/\ (Dispatched /\ ~Failed /\ err' = "" /\ blk'.title = s_Section) =>
          /\ nodes'[Len(nodes')].cls = "SectionBlock"
          /\ curr_section' = Len(nodes')
          /\ curr_parent' = Len(nodes')
     /\ (op' = "block" /\ err' = "" /\ curr_section # None /\ curr_parent = curr_section
           /\ ~(Dispatched /\ blk'.title \in ContainerTitles)) =>
          /\ curr_parent' = curr_section
          /\ \A i \in Created : nodes'[i].parent = curr_section]_vars

\* C23: every Example, Topics and See Also node that is created for a header
\* of that title is a child of the Item that is open when the header is
\* dispatched, and never of a Section, Subsection or File node.
C23_ItemChildren ==
  [][\A i \in Created :
       (blk'.title \in {s_Example, s_Examples, s_Topics, s_SeeAlso}
          /\ nodes'[i].cls \in {"ExampleBlock", "TopicsBlock", "SeeAlsoBlock"}) =>
         /\ blk'.item # None
         /\ nodes'[i].parent = blk'.item
         /\ nodes'[nodes'[i].parent].cls = "ItemBlock"
         /\ Linked(nodes', i)]_vars

\* the titles the dispatch handles before it looks a title up in the registry
BeforeRegistry ==
  DirectiveTitles \cup {s_vim, s_emacs}
    \cup (StructuralTitles \ (ItemTitles \cup {s_Topics, s_SeeAlso}))

\* the step dispatches, in a unit that has a File node, a header whose title
\* the registry holds with the parent kind Item, while the parent is no Item
ItemOnlyElsewhere ==
  /\ Dispatched
  /\ blk'.file # None
  /\ blk'.title \in DOMAIN header_defs
  /\ header_defs[blk'.title].parcls = "ItemBlock"
  /\ ~IsItem(Self, blk'.parent)

\* the step created no node, changed no node and no name of the NameIndex,
\* and logged nothing
Ignored ==
  /\ nodes' = nodes
  /\ items_by_name' = items_by_name
  /\ errorlog' = errorlog
  /\ err' = ""

\* C24 as stated: in a unit that has a File node, a header whose title is in
\* the registry with the parent kind Item, met while the current parent is no
\* Item, creates no node, runs no callback and logs nothing.
C24_Original == [][ItemOnlyElsewhere => Ignored]_vars

\* C24: the same for every title that the dispatch does not handle before it
\* consults the registry (the directives, vim and emacs, and File to Examples
\* are handled by their own branches, whatever the registry holds for them).
C24_ItemOnlyIgnored ==
  [][(ItemOnlyElsewhere /\ blk'.title \notin BeforeRegistry) => Ignored]_vars

\* an Alias header was ignored under a Section although an Item was open
C24_Witness ==
  /\ op = "block"
  /\ blk.dispatched
  /\ blk.title = s_Alias
  /\ blk.file # None
  /\ blk.item # None
  /\ nodes[blk.parent].cls = "SectionBlock"
  /\ ~blk.exc.raised
  /\ nodes[blk.item].aliases = <<>>
  /\ DOMAIN items_by_name = {nodes[blk.item].subtitle}

\* the class each kind option of DefineHeader stands for
KindClass ==
  [k \in KindOptions |->
     CASE k = s_NumList -> "NumberedListBlock"
       [] k = s_BulletList -> "BulletListBlock"
       [] k = s_Table -> "TableBlock"
       [] k = s_Example -> "ExampleBlock"
       [] k = s_Figure -> "FigureBlock"
       [] k = s_Label -> "LabelBlock"
       [] k = s_Text -> "TextBlock"
       [] k = s_Generic -> "GenericBlock"]

\* a DefineHeader block with exactly one kind option registers its title with
\* the class of that option, and while the unit is parsed a title stays in the
\* registry, with its rule unless a DefineHeader block is dispatched
Registration ==
  /\ (Dispatched /\ ~Failed /\ err' = "" /\ blk'.title = s_DefineHeader) =>
       \A k \in KindOptions :
         KindOptions \cap DOMAIN _parse_meta_dict(blk'.meta) = {k} =>
           /\ strip(blk'.subtitle) \in DOMAIN header_defs'
           /\ header_defs'[strip(blk'.subtitle)].cls = KindClass[k]
  /\ op' = "block" =>
       \A t \in DOMAIN header_defs :
         /\ t \in DOMAIN header_defs'
         /\ (Dispatched /\ blk'.title = s_DefineHeader) \/ header_defs'[t] = header_defs[t]

\* the step dispatches a header whose title, none of the titles of B, is in the
\* registry, and the parent meets the parent kind of the rule
DefinedHeader(B) ==
  /\ Dispatched
  /\ blk'.title \in DOMAIN header_defs \ B
  /\ header_defs[blk'.title].parcls = "None" \/ IsItem(Self, blk'.parent)

\* the step created one node, of the class the registry holds for the title,
\* under the parent, and did not fail
NodeOfKind ==
  /\ ~Failed
  /\ err' = ""
  /\ errorlog' = errorlog
  /\ Len(nodes') = Len(nodes) + 1
  /\ nodes'[Len(nodes')].cls = header_defs[blk'.title].cls
  /\ nodes'[Len(nodes')].title = blk'.title
  /\ nodes'[Len(nodes')].parent = blk'.parent

\* C25 as stated: once a DefineHeader block with a valid kind for a title that
\* is no built-in structural or directive title has been processed, every
\* later header of that title in the unit whose parent constraint is met
\* produces a node of the defined kind and no 'Unrecognized block' error.
C25_Original ==
  [][/\ Registration
     /\ DefinedHeader(DirectiveTitles \cup StructuralTitles) => NodeOfKind]_vars

\* C25: the same when the parser is not strict or the unit has a File node
\* when the header is met.
C25_Recognized ==
  [][/\ Registration
     /\ (DefinedHeader(DirectiveTitles \cup StructuralTitles)
           /\ ~(strict /\ blk'.file = None)) =>
          NodeOfKind]_vars

\* a strict parser has built a Label node for a title the unit defined, after
\* the File header of the unit
C25_Witness ==
  /\ op = "block"
  /\ strict
  /\ blk.dispatched
  /\ ~blk.exc.raised
  /\ blk.file # None
  /\ blk.title \notin DOMAIN BuiltinDefs
  /\ blk.title \in DOMAIN header_defs
  /\ nodes[Len(nodes)].title = blk.title
  /\ nodes[Len(nodes)].cls = "LabelBlock"
  /\ nodes[Len(nodes)].parent = blk.parent

\* the step left the tree, the file list, the NameIndex, the registry and the
\* options as they were, and the current file, section, item and parent as
\* they were when the header was dispatched
FrameKept ==
  /\ nodes' = nodes
  /\ file_blocks' = file_blocks
  /\ items_by_name' = items_by_name
  /\ header_defs' = header_defs
  /\ opts' = opts
  /\ curr_file_block' = blk'.file
  /\ curr_section' = blk'.section
  /\ curr_item' = blk'.item
  /\ curr_parent' = blk'.parent

\* C26: a block whose dispatch ends in a logged FAIL changes nothing but the
\* ErrorLog: it creates no node, and the file list, the NameIndex, the
\* registry, the options and the current file, section, item and parent are
\* after the block what they were when its header was dispatched.
C26_FailedBlockFrame == [][Failed => (OneEntryAdded /\ FrameKept)]_vars

\* the step ran a callback of the registry: it dispatched a header whose
\* title the registry holds with a callback, the parent kind being met
CallbackRan ==
  /\ DefinedHeader(BeforeRegistry)
  /\ ~(strict /\ blk'.file = None)
  /\ header_defs[blk'.title].cb # "None"

\* what the callback of the step did to Item i: Status sets its deprecated
\* flag, Alias and Aliases append the names to its aliases and map them to it
CallbackOn(i) ==
  IF header_defs[blk'.title].cb = "_status_block_cb"
  THEN /\ nodes'[i].deprecated = Contains(blk'.subtitle, s_DEPRECATED)
       /\ nodes'[i].aliases = nodes[i].aliases
       /\ items_by_name' = items_by_name
  ELSE /\ nodes'[i].deprecated = nodes[i].deprecated
       /\ nodes'[i].aliases = nodes[i].aliases \o StripEach(split(blk'.subtitle, ","))
       /\ \A k \in 1..Len(nodes'[i].aliases) : items_by_name'[nodes'[i].aliases[k]] = i

\* C27: whenever the current parent is an Item, before a call of _parse_block,
\* when the call dispatches a header and when it has returned, the current
\* item is that same Item; a rule with a callback requires an Item parent, so
\* the Status and Alias callbacks never run without a current item: they
\* change the Item the new node was attached to and no other Item.
C27_ParentItem ==
  [][op' = "block" =>
       /\ IsItem(Self, curr_parent) => curr_item = curr_parent
       /\ (blk'.found /\ IsItem(Self, blk'.parent)) => blk'.item = blk'.parent
       /\ IsItem(Self', curr_parent') => curr_item' = curr_parent'
       /\ \A t \in DOMAIN header_defs :
            header_defs[t].cb # "None" => header_defs[t].parcls = "ItemBlock"
       /\ CallbackRan =>
            /\ err' = ""
            /\ blk'.item # None
            /\ blk'.item = blk'.parent
            /\ Len(nodes') = Len(nodes) + 1
            /\ nodes'[Len(nodes')].parent = blk'.item
            /\ CallbackOn(blk'.item)
            /\ \A j \in Items(nodes) \ {blk'.item} : nodes'[j] = nodes[j]]_vars

\* the Status callback has marked the open Item deprecated, and an Aliases
\* callback has given it two more names
C27_Witness ==
  /\ op = "block"
  /\ blk.dispatched
  /\ blk.title = s_Status
  /\ blk.item # None
  /\ blk.item = blk.parent
  /\ nodes[blk.item].deprecated
  /\ Len(nodes[blk.item].aliases) = 2
  /\ Cardinality(DOMAIN items_by_name) = 3

\* C28: when parse_lines has returned for a unit no Item is left open: the
\* current item is null and the current parent is no Item, whatever the lines
\* were and whichever blocks failed.
C28_NoItemLeftOpen ==
  (op = "block" /\ pc = "idle") => (curr_item = None /\ ~IsItem(Self, curr_parent))

\* C29: the scan makes progress and terminates: every call of _parse_block
\* with a line index below the number of lines returns, with an index that is
\* strictly greater and at most the number of lines, whether the block
\* succeeds or fails.
C29_Progress ==
  [][op' = "block" =>
       /\ err' = ""
       /\ line_num < line_num'
       /\ line_num' <= Len(lines)]_vars

\* node i of class cls has a parent of class pcls, created in the same unit,
\* and is among the children of that parent
ChildOf(i, cls, pcls) ==
  nodes[i].cls = cls =>
    /\ nodes[i].parent # None
    /\ nodes[nodes[i].parent].cls = pcls
    /\ nodes[nodes[i].parent].origin.file = nodes[i].origin.file
    /\ Linked(nodes, i)

\* C30: the tree has a fixed shape in every reachable state: the parent of
\* every Section is the File node of its unit (the current File node, for a
\* Section of the unit being parsed), the parent of every Subsection is a
\* Section and the parent of every Item is a Section; and whenever the current
\* section is not null, the current File node is not null and is the parent
\* of that Section.
C30_TreeShape ==
  /\ \A i \in 1..Len(nodes) :
       /\ ChildOf(i, "SectionBlock", "FileBlock")
       /\ ChildOf(i, "SubsectionBlock", "SectionBlock")
       /\ ChildOf(i, "ItemBlock", "SectionBlock")
       /\ (nodes[i].cls = "SectionBlock" /\ nodes[i].origin.file = src_file) =>
            nodes[i].parent = curr_file_block
       /\ nodes[i].cls = "FileBlock" => nodes[i].parent = None
  /\ curr_section # None =>
       /\ nodes[curr_section].cls = "SectionBlock"
       /\ curr_file_block # None
       /\ nodes[curr_section].parent = curr_file_block

\* an Item was declared while a Subsection was the parent and another Item
\* was open, and it is a child of the Section of the Subsection
C30_Witness ==
  /\ op = "block"
  /\ blk.dispatched
  /\ blk.title \in ItemTitles
  /\ blk.item # None
  /\ blk.item # curr_item
  /\ nodes[blk.parent].cls = "SubsectionBlock"
  /\ curr_item = Len(nodes)
  /\ nodes[curr_item].parent = curr_section
  /\ nodes[curr_item].parent = nodes[blk.parent].parent
  /\ nodes[curr_item].parent = nodes[blk.item].parent

\* the step dispatches an item header while the unit has a File node or the
\* parser, not being strict, can create one
ItemHeader ==
  /\ Dispatched
  /\ blk'.title \in ItemTitles
  /\ ~(strict /\ blk'.file = None)

\* the step created an Item of the header's title and subtitle, the last node
\* of the tree, and the NameIndex holds it under the subtitle
ItemRegistered ==
  /\ ~Failed
  /\ err' = ""
  /\ errorlog' = errorlog
  /\ Len(nodes') > Len(nodes)
  /\ nodes'[Len(nodes')].cls = "ItemBlock"
  /\ nodes'[Len(nodes')].title = blk'.title
  /\ nodes'[Len(nodes')].subtitle = blk'.subtitle
  /\ blk'.subtitle \in DOMAIN items_by_name'
  /\ items_by_name'[blk'.subtitle] = Len(nodes')

\* the step logged the FAIL of a name declared before, and the NameIndex is
\* as it was
DuplicateFail ==
  /\ Failed
  /\ OneEntryAdded
  /\ blk'.exc.message = "Previous declaration of {} at {}:{}, Redeclared:"
  /\ blk'.subtitle \in DOMAIN items_by_name
  /\ blk'.exc.info.name = blk'.subtitle
  /\ blk'.exc.info.line = nodes[items_by_name[blk'.subtitle]].origin.line
  /\ items_by_name' = items_by_name

\* C31: whatever titles the registry holds, a header titled Constant,
\* Function, Module or Function&Module, met while the unit has a File node or
\* one can be created, either creates an Item that the NameIndex holds under
\* its subtitle or logs the FAIL of a duplicate name.
C31_ItemsBuiltIn == [][ItemHeader => (ItemRegistered \/ DuplicateFail)]_vars

\* a strict parser dispatches, in a unit that has no File node, a header
\* whose title is no directive and neither File nor LibFile
StrictHeader ==
  /\ strict
  /\ Dispatched
  /\ blk'.file = None
  /\ blk'.title \notin (DirectiveTitles \cup {s_File, s_LibFile})

\* the step logged the FAIL that asks for a File or LibFile block, at the
\* line of the header
GateFail ==
  /\ Failed
  /\ err' = ""
  /\ OneEntryAdded
  /\ NewEntry.message = "Must declare File or LibFile block before declaring block:"
  /\ NewEntry.level = "FAIL"
  /\ NewEntry.block = blk'.title
  /\ NewEntry.file = src_file
  /\ NewEntry.line = blk'.hdr_line_num + 1

\* a strict parser adds a File node to the file list only when it dispatches
\* a File or LibFile header, and the node is the one built from that header
ExplicitFile ==
  (strict /\ file_blocks' # file_blocks) =>
    /\ Dispatched
    /\ ~Failed
    /\ blk'.title \in {s_File, s_LibFile}
    /\ Len(nodes') = Len(nodes) + 1
    /\ file_blocks' = Append(file_blocks, Len(nodes'))
    /\ curr_file_block' = Len(nodes')
    /\ nodes'[Len(nodes')].cls = "FileBlock"
    /\ nodes'[Len(nodes')].title = blk'.title
    /\ nodes'[Len(nodes')].subtitle = blk'.subtitle
    /\ nodes'[Len(nodes')].origin.line = blk'.hdr_line_num + 1

\* C32: in strict mode, while the unit has no File node, every header other
\* than the directives and File/LibFile logs the FAIL 'Must declare File or
\* LibFile block' and creates nothing (the tree, the file list, the NameIndex,
\* the registry and the current pointers stay as they were); and a strict
\* parser adds no File node to the file list but the one built from a File or
\* LibFile header.
C32_StrictGate ==
  [][/\ StrictHeader => (GateFail /\ FrameKept)
     /\ ExplicitFile]_vars

\* a strict parser has refused an item header in a unit without File node:
\* the tree, the file list and the NameIndex are empty and the log holds the
\* FAIL
C32_Witness ==
  /\ strict
  /\ op = "block"
  /\ blk.dispatched
  /\ blk.title \in ItemTitles
  /\ blk.file = None
  /\ blk.exc.raised
  /\ blk.exc.message = "Must declare File or LibFile block before declaring block:"
  /\ nodes = <<>>
  /\ file_blocks = <<>>
  /\ DOMAIN items_by_name = {}
  /\ errorlog # <<>>
  /\ errorlog[Len(errorlog)].message = blk.exc.message

====
